---------------------------- MODULE Spec2Model ----------------------------
(***************************************************************************)
(* Model of the ROCm monitor's collection-and-retention engine:            *)
(*   - Parser      (rocm_data.go: ParseRocmSMIOutput, splitByGPU)          *)
(*   - Sampler     (collector: Collector.collect, GetCPUUsage, Validate)   *)
(*   - History     (collector: history slice, GetHistory, GetLatest, ...)  *)
(*   - Scheduler   (collector: Start, Stop, collectLoop, SetInterval)      *)
(*                                                                         *)
(* Text is modelled at token level: a text is a sequence of lines, a line  *)
(* a sequence of tokens, and every regular expression of the parser is     *)
(* modelled by what it matches on that token sequence.  Floating point     *)
(* values are modelled by integers.                                        *)
(***************************************************************************)
EXTENDS Integers, Sequences, FiniteSets, TLC

(***************************************************************************)
(* Bounds of the model.                                                    *)
(***************************************************************************)
MaxLoops == 2      \* collectLoop goroutines alive at the same time
MaxTime  == 2      \* the wall clock runs over 0..MaxTime
MaxHist  == 2      \* config.MaxHistory handed to NewCollector
MaxCalls == 2      \* API calls in progress at the same time

(***************************************************************************)
(* Program constants.                                                      *)
(***************************************************************************)
DefaultMaxHistory == 1000
DefaultInterval   == 5
BytesPerGB        == 1073741824
MaxTemperature    == 150
MaxPower          == 1000
MaxPercent        == 100

VARIABLES
    history,      \* c.history: sequence of RocmData
    maxHistory,   \* c.maxHistory
    interval,     \* c.interval (seconds)
    ctx,          \* c.ctx / c.cancel: the collector's current context
    cancelled,    \* contexts whose cancel function has been called
    loops,        \* the collectLoop goroutines
    lastCPUStats, \* package-level lastCPUStats
    now,          \* wall clock (time.Now)
    reader,       \* what an API caller holds after GetHistory / GetLatest
    log,          \* history of appends since the store was last empty (observer)
    lastCall,     \* the last call of Start, Stop or SetInterval(d > 0) (observer)
    reply,        \* what the step just taken answered to an HTTP handler (observer)
    dataMutex,    \* c.dataMutex: who holds the reader/writer lock
    calls,        \* the API calls in progress that take c.dataMutex step by step
    input,        \* a text handed to Parser.ParseRocmSMIOutput directly
    parsed,       \* what that call of the parser returned
    exported,     \* the threshold gauges the last ExportPrometheus wrote
    info,         \* the GetGPUStaticInfo call in progress
    test          \* the ROCmTester.RunTests call in progress

\* the variables of the on-demand paths, which the collector never touches
aux == <<input, parsed, exported, info, test>>

vars == <<history, maxHistory, interval, ctx, cancelled, loops,
          lastCPUStats, now, reader, log, lastCall, reply, dataMutex, calls, aux>>

(***************************************************************************)
(* Generic helpers.                                                        *)
(***************************************************************************)
Range(s) == {s[i] : i \in 1..Len(s)}

Min(a, b) == IF a < b THEN a ELSE b

Last(s) == s[Len(s)]

\* the last n elements of s (all of s when it has fewer)
LastN(s, n) == SubSeq(s, Len(s) - Min(n, Len(s)) + 1, Len(s))

RECURSIVE Flatten(_)
Flatten(ss) == IF ss = <<>> THEN <<>> ELSE Head(ss) \o Flatten(Tail(ss))

RECURSIVE SetToSeqs(_)
\* all orderings of a finite set, as sequences
SetToSeqs(S) ==
    IF S = {} THEN {<<>>}
    ELSE UNION {{<<x>> \o t : t \in SetToSeqs(S \ {x})} : x \in S}

(***************************************************************************)
(* Tokens of rocm-smi output.                                              *)
(*   int   : a bare integer followed by white space                       *)
(*   degC  : a number followed by the Celsius marker                       *)
(*   lowc  : a number followed by a lowercase c (no regexp matches it)     *)
(*   watt  : a number followed by W                                        *)
(*   pct   : a number followed by %                                        *)
(*   auto  : the word auto; word: any other word                           *)
(*   vramTotal / vramUsed / sclk / mclk: a whole detail line GPU[id] : ... *)
(***************************************************************************)
TInt(v)   == [k |-> "int",  id |-> 0, v |-> v]
TDegC(v)  == [k |-> "degC", id |-> 0, v |-> v]
TLowC(v)  == [k |-> "lowc", id |-> 0, v |-> v]
TWatt(v)  == [k |-> "watt", id |-> 0, v |-> v]
TPct(v)   == [k |-> "pct",  id |-> 0, v |-> v]
TAuto     == [k |-> "auto", id |-> 0, v |-> 0]
TWord     == [k |-> "word", id |-> 0, v |-> 0]
TVramTotal(i, b) == [k |-> "vramTotal", id |-> i, v |-> b]
TVramUsed(i, b)  == [k |-> "vramUsed",  id |-> i, v |-> b]
TSclk(i, f)      == [k |-> "sclk", id |-> i, v |-> f]
TMclk(i, f)      == [k |-> "mclk", id |-> i, v |-> f]

EmptyText == <<>>

\* the lines of a text: strings.Split(output, "\n"); "" splits into one empty line
Lines(text) == IF text = <<>> THEN << <<>> >> ELSE text

\* a + "\n" + b
JoinNL(a, b) == Lines(a) \o Lines(b)

\* output == ""
IsEmptyText(text) == \A i \in 1..Len(text) : Len(text) = 1 /\ text[i] = <<>>

(***************************************************************************)
(* Parser (rocm_data.go).                                                  *)
(***************************************************************************)
NoMatch == [found |-> FALSE, v |-> 0]
Match(x) == [found |-> TRUE, v |-> x]

\* first token of kind k in the token sequence, as FindStringSubmatch finds it
FirstOfKind(toks, k) ==
    LET I == {i \in 1..Len(toks) : toks[i].k = k}
    IN  IF I = {} THEN NoMatch
        ELSE Match(toks[CHOOSE i \in I : \A j \in I : i <= j].v)

\* tempRegex  (\d+\.?\d*)\s*°C
tempRegex(toks) == FirstOfKind(toks, "degC")

\* powerRegex (\d+\.?\d*)\s*W
powerRegex(toks) == FirstOfKind(toks, "watt")

\* vramRegex  (\d+\.?\d*)%\s+(\d+\.?\d*)%\s*$  : two percentages ending the text
vramRegex(toks) ==
    LET n == Len(toks)
    IN  IF n >= 2 /\ toks[n-1].k = "pct" /\ toks[n].k = "pct"
        THEN [found |-> TRUE, v |-> toks[n-1].v, w |-> toks[n].v]
        ELSE [found |-> FALSE, v |-> 0, w |-> 0]

\* fanRegex   (\d+\.?\d*)%\s+auto : first percentage directly before "auto"
fanRegex(toks) ==
    LET I == {i \in 1..(Len(toks) - 1) : toks[i].k = "pct" /\ toks[i+1].k = "auto"}
    IN  IF I = {} THEN NoMatch
        ELSE Match(toks[CHOOSE i \in I : \A j \in I : i <= j].v)

\* deviceIDRegex ^(\d+)\s+ : the line starts with an integer and white space
deviceIDRegex(line) ==
    IF Len(line) >= 1 /\ line[1].k = "int" THEN Match(line[1].v) ELSE NoMatch

\* the per-id clock pattern built with fmt.Sprintf, searched in the whole output
ClockPattern(toks, k, id) ==
    LET I == {i \in 1..Len(toks) : toks[i].k = k /\ toks[i].id = id}
    IN  IF I = {} THEN NoMatch
        ELSE Match(toks[CHOOSE i \in I : \A j \in I : i <= j].v)

\* vramTotalMap / vramUsedMap: FindAllStringSubmatch, later matches overwrite
DetailMap(toks, k) ==
    LET I   == {i \in 1..Len(toks) : toks[i].k = k}
        ids == {toks[i].id : i \in I}
    IN  [g \in ids |->
            LET J == {i \in I : toks[i].id = g}
            IN  toks[CHOOSE i \in J : \A j \in J : j <= i].v \div BytesPerGB]

\* splitByGPU as it would be without the fallback to an implicit device 0
splitByGPUNoFallback(output) ==
    LET lines == Lines(output)
        D     == {i \in 1..Len(lines) : deviceIDRegex(lines[i]).found}
        ids   == {deviceIDRegex(lines[i]).v : i \in D}
    IN  [g \in ids |->
            LET J == {i \in D : deviceIDRegex(lines[i]).v = g}
            IN  lines[CHOOSE i \in J : \A j \in J : j <= i]]

\* splitByGPU: map from device id to its section (a token sequence)
splitByGPU(output) ==
    LET lines == Lines(output)
        D     == {i \in 1..Len(lines) : deviceIDRegex(lines[i]).found}
        ids   == {deviceIDRegex(lines[i]).v : i \in D}
    IN  IF D = {} THEN [g \in {0} |-> Flatten(lines)]
        ELSE [g \in ids |->
                LET J == {i \in D : deviceIDRegex(lines[i]).v = g}
                IN  lines[CHOOSE i \in J : \A j \in J : j <= i]]

\* the GPU record as it would be if the summary metrics were searched in the
\* whole output instead of the device's own section
ParseGPUWholeOutput(id, section, output) ==
    LET all   == Flatten(Lines(output))
        total == DetailMap(all, "vramTotal")
        used  == DetailMap(all, "vramUsed")
        vr    == vramRegex(all)
    IN  [ID          |-> id,
         Temperature |-> tempRegex(all).v,
         Power       |-> powerRegex(all).v,
         VRAMUsage   |-> IF id \in DOMAIN used THEN used[id] ELSE vr.v,
         VRAMTotal   |-> IF id \in DOMAIN total THEN total[id] ELSE 0,
         GPUUsage    |-> vr.w,
         FanSpeed    |-> fanRegex(section).v,
         SCLKFreq    |-> ClockPattern(all, "sclk", id).v,
         MCLKFreq    |-> ClockPattern(all, "mclk", id).v]

\* the GPU record as it would be if the detailed VRAM figures did not replace
\* the percentage of the summary line
ParseGPUKeepsPercent(id, section, output) ==
    LET all   == Flatten(Lines(output))
        total == DetailMap(all, "vramTotal")
        vr    == vramRegex(section)
    IN  [ID          |-> id,
         Temperature |-> tempRegex(section).v,
         Power       |-> powerRegex(section).v,
         VRAMUsage   |-> vr.v,
         VRAMTotal   |-> IF id \in DOMAIN total THEN total[id] ELSE 0,
         GPUUsage    |-> vr.w,
         FanSpeed    |-> fanRegex(section).v,
         SCLKFreq    |-> ClockPattern(all, "sclk", id).v,
         MCLKFreq    |-> ClockPattern(all, "mclk", id).v]

\* the GPU record built in the body of ParseRocmSMIOutput's loop
ParseGPU(id, section, output) ==
    LET all   == Flatten(Lines(output))
        total == DetailMap(all, "vramTotal")
        used  == DetailMap(all, "vramUsed")
        vr    == vramRegex(section)
    IN  [ID          |-> id,
         Temperature |-> tempRegex(section).v,
         Power       |-> powerRegex(section).v,
         VRAMUsage   |-> IF id \in DOMAIN used THEN used[id] ELSE vr.v,
         VRAMTotal   |-> IF id \in DOMAIN total THEN total[id] ELSE 0,
         GPUUsage    |-> vr.w,
         FanSpeed    |-> fanRegex(section).v,
         SCLKFreq    |-> ClockPattern(all, "sclk", id).v,
         MCLKFreq    |-> ClockPattern(all, "mclk", id).v]

\* ParseRocmSMIOutput as it would be without the test for empty output
ParseRocmSMIOutputNoEmptyCheck(output) ==
    LET sections == splitByGPU(output)
        gpus     == {ParseGPU(id, sections[id], output) : id \in DOMAIN sections}
    IN  IF gpus = {} THEN {[err |-> "nogpu", GPUs |-> <<>>]}
        ELSE {[err |-> "", GPUs |-> s] : s \in SetToSeqs(gpus)}

\* ParseRocmSMIOutput: the set of results the call can return.  Go iterates
\* over the sections map in an unspecified order, so every ordering of the
\* devices is a possible result.
ParseRocmSMIOutput(output) ==
    IF IsEmptyText(output) THEN {[err |-> "empty", GPUs |-> <<>>]}
    ELSE LET sections == splitByGPU(output)
             gpus     == {ParseGPU(id, sections[id], output) : id \in DOMAIN sections}
         IN  IF gpus = {} THEN {[err |-> "nogpu", GPUs |-> <<>>]}
             ELSE {[err |-> "", GPUs |-> s] : s \in SetToSeqs(gpus)}

(***************************************************************************)
(* RocmData.Validate.                                                      *)
(***************************************************************************)
\* the range checks of a device as they would be if a zero reading were
\* rejected
ValidGPUNonZero(gpu) ==
    /\ ~(gpu.Temperature <= 0 \/ gpu.Temperature > MaxTemperature)
    /\ ~(gpu.Power <= 0 \/ gpu.Power > MaxPower)
    /\ ~(gpu.GPUUsage <= 0 \/ gpu.GPUUsage > MaxPercent)

ValidGPU(gpu) ==
    /\ ~(gpu.Temperature < 0 \/ gpu.Temperature > MaxTemperature)
    /\ ~(gpu.Power < 0 \/ gpu.Power > MaxPower)
    /\ ~(gpu.GPUUsage < 0 \/ gpu.GPUUsage > MaxPercent)

\* Validate as it would be if it looked at the first device only
ValidateFirstDevice(gpus, cpuUsage) ==
    /\ Len(gpus) # 0
    /\ ValidGPU(gpus[1])
    /\ ~(cpuUsage < 0 \/ cpuUsage > MaxPercent)

Validate(gpus, cpuUsage) ==
    /\ Len(gpus) # 0
    /\ \A i \in 1..Len(gpus) : ValidGPU(gpus[i])
    /\ ~(cpuUsage < 0 \/ cpuUsage > MaxPercent)

(***************************************************************************)
(* External world: what the invoked commands print, what /proc/stat shows. *)
(***************************************************************************)
\* "0  45.0°C  120.0W  30%  auto  50%  80%"
LineOk  == <<TInt(0), TDegC(45), TWatt(120), TPct(30), TAuto, TPct(50), TPct(80)>>
\* the same device line reporting 200°C
LineHot == <<TInt(0), TDegC(200), TWatt(120), TPct(30), TAuto, TPct(50), TPct(80)>>
\* a banner line without any device line
LineBanner == <<TWord, TWord>>

OutOk     == <<LineBanner, LineOk>>
OutHot    == <<LineBanner, LineHot>>
OutBanner == <<LineBanner>>
\* two device lines, device 1 reporting 200°C
LineHot1 == <<TInt(1), TDegC(200), TWatt(120), TPct(30), TAuto, TPct(50), TPct(80)>>
OutMixed == <<LineBanner, LineOk, LineHot1>>

\* outputs of the primary command "rocm-smi" in a round
PrimaryOutputs == {OutOk, OutHot, OutMixed, EmptyText}

\* output of "rocm-smi --showmeminfo vram"
OutVram  == << <<TVramTotal(0, BytesPerGB)>>, <<TVramUsed(0, BytesPerGB)>> >>
\* output of "rocm-smi -c"
OutClock == << <<TSclk(0, 800)>>, <<TMclk(0, 400)>> >>


\* readings of the first line of /proc/stat; ReadFailed: ReadCPUStats errors
ReadFailed   == [Total |-> -1, Idle |-> -1]
CPUSnapshots == {[Total |-> 100, Idle |-> 50],
                 [Total |-> 200, Idle |-> 100],
                 [Total |-> 300, Idle |-> 90]}
NoCPUStats   == [Total |-> -2, Idle |-> -2]      \* lastCPUStats == nil

\* durations handed to NewCollector and SetInterval (seconds)
Durations == {-1, 0, 1, 2}

(***************************************************************************)
(* GetCPUUsage: the usage returned for reading cur when last was recorded. *)
(***************************************************************************)
GetCPUUsage(last, cur) ==
    IF last = NoCPUStats THEN 0
    ELSE LET totalDiff == cur.Total - last.Total
             idleDiff  == cur.Idle - last.Idle
         IN  IF totalDiff = 0 THEN 0
             ELSE ((totalDiff - idleDiff) * 100) \div totalDiff

(***************************************************************************)
(* Collector state.                                                        *)
(*                                                                         *)
(* A RocmData value is [Timestamp, GPUs, CPUUsage].  The elements of        *)
(* c.history are held by value.  A RocmData value that GetHistory or        *)
(* GetLatest returned is a copy of the header only: its GPUs slice shares   *)
(* its backing array with the stored element it was copied from.  A reader  *)
(* entry records that sharing in the field at: the index in c.history of    *)
(* the element whose device array it shares, or 0 once the store has        *)
(* dropped that element, from when on the entry alone holds the array.      *)
(***************************************************************************)
LoopIds == 1..MaxLoops
CtxIds  == 0..(MaxLoops + 1)

NoData  == [Timestamp |-> -1, GPUs |-> <<>>, CPUUsage |-> 0]
NoCall  == [op |-> "none", arg |-> 0]
NoLoop  == [pc |-> "none", ctx |-> 0, data |-> NoData, sink |-> <<>>]

\* the step just taken was not a call answering to an HTTP handler
NoReply == [op |-> "none", arg |-> 0, err |-> ""]

\* the goroutines of the HTTP handlers whose calls take c.dataMutex step by step
CallIds  == 1..MaxCalls
IdleCall == [pc |-> "idle", op |-> "none", size |-> 0, whole |-> TRUE]

\* c.dataMutex unlocked; writer: 0, a loop l, or MaxLoops + k for the call k
Unlocked == [writer |-> 0, readers |-> {}]

\* the parser has not been called on input
NotParsed == [done |-> FALSE, err |-> "", GPUs |-> <<>>]

\* no GetGPUStaticInfo call: pc names the sub-query whose command is running
NoInfo == [pc |-> "idle", by |-> "", err |-> "", FirmwareInfo |-> "",
           ProductName |-> "", SerialNumber |-> "", UniqueID |-> "",
           VRAMVendor |-> "", BusInfo |-> ""]

\* ExportPrometheus has not been called: latest is the sample it got from
\* GetLatest, gauges the threshold gauges it wrote, one per GPU
NoExport == [latest |-> NoData, gauges |-> <<>>]

\* no RunTests call: n is the index of the test whose command is running
NoTest == [pc |-> "idle", n |-> 0, OverallSuccess |-> TRUE, timedOut |-> FALSE]

\* the number of entries of the tests table of RunTests
NumTests == 11

Live(lps)    == {l \in LoopIds : lps[l].pc # "none"}
InRound(lps) == {l \in LoopIds : lps[l].pc \in {"run", "store"}}

\* the contexts referred to when the collector holds c and the goroutines are lps
CtxRefs(c, lps) ==
    {c} \cup {lps[l].ctx : l \in {m \in LoopIds : lps[m].pc \in {"run", "store", "wait"}}}

\* context.WithCancel(context.Background()): a context nobody refers to yet
NewContext ==
    CHOOSE c \in CtxIds : /\ c \notin CtxRefs(ctx, loops)
                          /\ \A d \in CtxIds : d < c => d \in CtxRefs(ctx, loops)

(***************************************************************************)
(* NewCollector.                                                           *)
(***************************************************************************)
\* NewCollector as it would be if it took config.MaxHistory as given
NewCollectorMaxHistoryAsGiven(cfg) == cfg

NewCollectorMaxHistory(cfg) == IF cfg <= 0 THEN DefaultMaxHistory ELSE cfg
NewCollectorInterval(cfg)   == IF cfg <= 0 THEN DefaultInterval ELSE cfg

\* the collector NewCollector returns, before Start
NewCollector ==
    /\ history = <<>>
    /\ maxHistory = NewCollectorMaxHistory(MaxHist)
    /\ \E d \in {0, 1} : interval = NewCollectorInterval(d)
    /\ ctx = 0
    /\ cancelled = {}
    /\ loops = [l \in LoopIds |-> NoLoop]
    /\ lastCPUStats = NoCPUStats
    /\ now = 0
    /\ reader = <<>>
    /\ log = <<>>
    /\ lastCall = NoCall
    /\ reply = NoReply
    /\ dataMutex = Unlocked
    /\ calls = [k \in CallIds |-> IdleCall]

\* no on-demand call has been made
NoOnDemand ==
    /\ parsed = NotParsed
    /\ exported = NoExport
    /\ info = NoInfo
    /\ test = NoTest

Init ==
    /\ NewCollector
    /\ input = EmptyText
    /\ NoOnDemand

(***************************************************************************)
(* Scheduler: Start, Stop, SetInterval, collectLoop.                       *)
(***************************************************************************)
FreeSlot(lps) ==
    CHOOSE l \in LoopIds : /\ lps[l].pc = "none"
                           /\ \A m \in LoopIds : m < l => lps[m].pc # "none"

\* go c.collectLoop(): a new goroutine that has not run yet
Spawn(lps) == [lps EXCEPT ![FreeSlot(lps)] = [NoLoop EXCEPT !.pc = "start"]]

\* Start as it would be if it replaced the cancellation context
StartRenewsContext ==
    /\ Live(loops) # LoopIds
    /\ ctx' = NewContext
    /\ loops' = Spawn(loops)
    /\ cancelled' = (cancelled \ {NewContext}) \cap CtxRefs(ctx', loops')
    /\ lastCall' = [op |-> "Start", arg |-> 0]
    /\ UNCHANGED <<history, maxHistory, interval,
                   lastCPUStats, now, reader, log, dataMutex, calls, aux>>
    /\ reply' = NoReply

\* Collector.Start
Start ==
    /\ Live(loops) # LoopIds
    /\ loops' = Spawn(loops)
    /\ lastCall' = [op |-> "Start", arg |-> 0]
    /\ UNCHANGED <<history, maxHistory, interval, ctx, cancelled,
                   lastCPUStats, now, reader, log, dataMutex, calls, aux>>
    /\ reply' = NoReply

\* Stop as it would be if it did not call c.cancel()
StopWithoutCancel ==
    /\ lastCall' = [op |-> "Stop", arg |-> 0]
    /\ UNCHANGED <<history, maxHistory, interval, ctx, cancelled, loops,
                   lastCPUStats, now, reader, log, dataMutex, calls, aux>>
    /\ reply' = NoReply

\* Collector.Stop: c.cancel()
Stop ==
    /\ cancelled' = cancelled \cup {ctx}
    /\ lastCall' = [op |-> "Stop", arg |-> 0]
    /\ UNCHANGED <<history, maxHistory, interval, ctx, loops,
                   lastCPUStats, now, reader, log, dataMutex, calls, aux>>
    /\ reply' = NoReply

\* SetInterval as it would be without the assignment c.interval = interval
SetIntervalKeepsInterval(d) ==
    /\ reply' = [op |-> "SetInterval", arg |-> d, err |-> ""]
    /\ UNCHANGED <<dataMutex, calls, aux>>
    /\ IF d <= 0
         THEN UNCHANGED <<history, maxHistory, interval, ctx, cancelled, loops,
                          lastCPUStats, now, reader, log, lastCall>>
         ELSE /\ Live(loops) # LoopIds
              /\ ctx' = NewContext
              /\ loops' = Spawn(loops)
              /\ cancelled' = ((cancelled \cup {ctx}) \ {NewContext})
                                  \cap CtxRefs(ctx', loops')
              /\ lastCall' = [op |-> "SetInterval", arg |-> d]
              /\ UNCHANGED <<history, maxHistory, interval, lastCPUStats, now,
                             reader, log>>

\* SetInterval as it would be if it ignored negative durations only
SetIntervalAcceptsZero(d) ==
    /\ reply' = [op |-> "SetInterval", arg |-> d, err |-> ""]
    /\ UNCHANGED <<dataMutex, calls, aux>>
    /\ IF d < 0
         THEN UNCHANGED <<history, maxHistory, interval, ctx, cancelled, loops,
                          lastCPUStats, now, reader, log, lastCall>>
         ELSE /\ Live(loops) # LoopIds
              /\ interval' = d
              /\ ctx' = NewContext
              /\ loops' = Spawn(loops)
              /\ cancelled' = ((cancelled \cup {ctx}) \ {NewContext})
                                  \cap CtxRefs(ctx', loops')
              /\ lastCall' = [op |-> "SetInterval", arg |-> d]
              /\ UNCHANGED <<history, maxHistory, lastCPUStats, now, reader, log>>

\* Collector.SetInterval, which returns nothing: its caller (configHandler)
\* goes on to answer 200 OK whatever d was
SetInterval(d) ==
    /\ reply' = [op |-> "SetInterval", arg |-> d, err |-> ""]
    /\ UNCHANGED <<dataMutex, calls, aux>>
    /\ IF d <= 0
         THEN UNCHANGED <<history, maxHistory, interval, ctx, cancelled, loops,
                          lastCPUStats, now, reader, log, lastCall>>
         ELSE /\ Live(loops) # LoopIds
              /\ interval' = d
              /\ ctx' = NewContext
              /\ loops' = Spawn(loops)
              /\ cancelled' = ((cancelled \cup {ctx}) \ {NewContext})
                                  \cap CtxRefs(ctx', loops')
              /\ lastCall' = [op |-> "SetInterval", arg |-> d]
              /\ UNCHANGED <<history, maxHistory, lastCPUStats, now, reader, log>>

\* collectLoop as it would be if it waited for the first tick
LoopStartWaitsForTick(l) ==
    /\ loops[l].pc = "start"
    /\ loops' = [loops EXCEPT ![l].pc = "wait", ![l].ctx = ctx, ![l].sink = <<>>]
    /\ cancelled' = cancelled \cap CtxRefs(ctx, loops')
    /\ UNCHANGED <<history, maxHistory, interval, ctx,
                   lastCPUStats, now, reader, log, lastCall, dataMutex, calls, aux>>
    /\ reply' = NoReply

\* collectLoop up to the call of its initial collect(), which reads c.ctx
LoopStart(l) ==
    /\ loops[l].pc = "start"
    /\ loops' = [loops EXCEPT ![l].pc = "run", ![l].ctx = ctx, ![l].sink = <<>>]
    /\ cancelled' = cancelled \cap CtxRefs(ctx, loops')
    /\ UNCHANGED <<history, maxHistory, interval, ctx,
                   lastCPUStats, now, reader, log, lastCall, dataMutex, calls, aux>>
    /\ reply' = NoReply

\* collectLoop as it would be if a failed round ended the ticking
LoopTickAfterSuccess(l) ==
    /\ loops[l].pc = "wait"
    /\ loops[l].sink = <<>>
    /\ loops' = [loops EXCEPT ![l].pc = "run", ![l].ctx = ctx, ![l].sink = <<>>]
    /\ cancelled' = cancelled \cap CtxRefs(ctx, loops')
    /\ UNCHANGED <<history, maxHistory, interval, ctx,
                   lastCPUStats, now, reader, log, lastCall, dataMutex, calls, aux>>
    /\ reply' = NoReply

\* select takes case <-ticker.C and calls collect(), which reads c.ctx
LoopTick(l) ==
    /\ loops[l].pc = "wait"
    /\ loops' = [loops EXCEPT ![l].pc = "run", ![l].ctx = ctx, ![l].sink = <<>>]
    /\ cancelled' = cancelled \cap CtxRefs(ctx, loops')
    /\ UNCHANGED <<history, maxHistory, interval, ctx,
                   lastCPUStats, now, reader, log, lastCall, dataMutex, calls, aux>>
    /\ reply' = NoReply

\* select takes case <-c.ctx.Done() (the channel evaluated on entering select)
LoopExit(l) ==
    /\ loops[l].pc = "wait"
    /\ loops[l].ctx \in cancelled
    /\ loops' = [loops EXCEPT ![l] = NoLoop]
    /\ cancelled' = cancelled \cap CtxRefs(ctx, loops')
    /\ UNCHANGED <<history, maxHistory, interval, ctx,
                   lastCPUStats, now, reader, log, lastCall, dataMutex, calls, aux>>
    /\ reply' = NoReply

(***************************************************************************)
(* Sampler: Collector.collect.                                             *)
(***************************************************************************)
\* combinedOutput as it would be if the output of a failed supplementary
\* command were appended all the same
CombinedOutputKeepsFailed(out, vramErr, clockErr) ==
    JoinNL(JoinNL(out, OutVram), OutClock)

\* combinedOutput: the primary output, then each supplementary output that
\* was obtained without error
CombinedOutput(out, vramErr, clockErr) ==
    LET a == IF vramErr THEN out ELSE JoinNL(out, OutVram)
    IN  IF clockErr THEN a ELSE JoinNL(a, OutClock)

\* collect() as it would be if it went on to the CPU read after the primary
\* command failed
CollectExecNoReturn(execErr, p, cur, last, t) ==
    LET cpuErr   == cur = ReadFailed
        cpuUsage == IF cpuErr THEN 0 ELSE GetCPUUsage(last, cur)
        newLast  == IF cpuErr THEN last ELSE cur
        cpuSink  == IF cpuErr THEN <<"cpu">> ELSE <<>>
    IN  IF execErr
          THEN [sink |-> <<"exec">> \o cpuSink, store |-> FALSE, data |-> NoData,
                last |-> newLast]
        ELSE IF p.err # ""
          THEN [sink |-> <<"parse">>, store |-> FALSE, data |-> NoData, last |-> last]
        ELSE IF ~Validate(p.GPUs, cpuUsage)
          THEN [sink |-> cpuSink \o <<"validate">>, store |-> FALSE,
                data |-> NoData, last |-> newLast]
        ELSE [sink |-> cpuSink, store |-> TRUE,
              data |-> [Timestamp |-> t, GPUs |-> p.GPUs, CPUUsage |-> cpuUsage],
              last |-> newLast]

\* collect() as it would be without the return after a failed validation
CollectNoReturn(execErr, p, cur, last, t) ==
    LET cpuErr   == cur = ReadFailed
        cpuUsage == IF cpuErr THEN 0 ELSE GetCPUUsage(last, cur)
        newLast  == IF cpuErr THEN last ELSE cur
        cpuSink  == IF cpuErr THEN <<"cpu">> ELSE <<>>
    IN  IF execErr
          THEN [sink |-> <<"exec">>, store |-> FALSE, data |-> NoData, last |-> last]
        ELSE IF p.err # ""
          THEN [sink |-> <<"parse">>, store |-> FALSE, data |-> NoData, last |-> last]
        ELSE [sink |-> IF Validate(p.GPUs, cpuUsage) THEN cpuSink
                       ELSE cpuSink \o <<"validate">>,
              store |-> TRUE,
              data |-> [Timestamp |-> t, GPUs |-> p.GPUs, CPUUsage |-> cpuUsage],
              last |-> newLast]

\* collect() as it would be without the checks of the parser's error and of
\* Validate's error
CollectUnchecked(execErr, p, cur, last, t) ==
    LET cpuErr   == cur = ReadFailed
        cpuUsage == IF cpuErr THEN 0 ELSE GetCPUUsage(last, cur)
        newLast  == IF cpuErr THEN last ELSE cur
        cpuSink  == IF cpuErr THEN <<"cpu">> ELSE <<>>
    IN  IF execErr
          THEN [sink |-> <<"exec">>, store |-> FALSE, data |-> NoData, last |-> last]
        ELSE [sink |-> cpuSink, store |-> TRUE,
              data |-> [Timestamp |-> t, GPUs |-> p.GPUs, CPUUsage |-> cpuUsage],
              last |-> newLast]

\* collect() as it would be without the return after a failed parse
CollectParseNoReturn(execErr, p, cur, last, t) ==
    LET cpuErr    == cur = ReadFailed
        cpuUsage  == IF cpuErr THEN 0 ELSE GetCPUUsage(last, cur)
        newLast   == IF cpuErr THEN last ELSE cur
        cpuSink   == IF cpuErr THEN <<"cpu">> ELSE <<>>
        parseSink == IF p.err # "" THEN <<"parse">> ELSE <<>>
    IN  IF execErr
          THEN [sink |-> <<"exec">>, store |-> FALSE, data |-> NoData, last |-> last]
        ELSE IF ~Validate(p.GPUs, cpuUsage)
          THEN [sink |-> parseSink \o cpuSink \o <<"validate">>, store |-> FALSE,
                data |-> NoData, last |-> newLast]
        ELSE [sink |-> parseSink \o cpuSink, store |-> TRUE,
              data |-> [Timestamp |-> t, GPUs |-> p.GPUs, CPUUsage |-> cpuUsage],
              last |-> newLast]

\* One run of collect() from the first command to Validate:
\*   execErr  the primary command returns an error
\*   p        the result of ParseRocmSMIOutput on the combined output
\*   cur      the /proc/stat reading (ReadFailed: ReadCPUStats errors)
\*   last     lastCPUStats on entry
\*   t        time.Now() inside the parser
\* Result: the errors handed to errorCallback in order, whether the round goes
\* on to store a sample, the sample, and lastCPUStats on exit.
Collect(execErr, p, cur, last, t) ==
    LET cpuErr   == cur = ReadFailed
        cpuUsage == IF cpuErr THEN 0 ELSE GetCPUUsage(last, cur)
        newLast  == IF cpuErr THEN last ELSE cur
        cpuSink  == IF cpuErr THEN <<"cpu">> ELSE <<>>
    IN  IF execErr
          THEN [sink |-> <<"exec">>, store |-> FALSE, data |-> NoData, last |-> last]
        ELSE IF p.err # ""
          THEN [sink |-> <<"parse">>, store |-> FALSE, data |-> NoData, last |-> last]
        ELSE IF ~Validate(p.GPUs, cpuUsage)
          THEN [sink |-> cpuSink \o <<"validate">>, store |-> FALSE,
                data |-> NoData, last |-> newLast]
        ELSE [sink |-> cpuSink, store |-> TRUE,
              data |-> [Timestamp |-> t, GPUs |-> p.GPUs, CPUUsage |-> cpuUsage],
              last |-> newLast]

\* the loop as it would go on if it ran a failed round again at once
ToSelectRetriesFailed(lp, sink) ==
    [lp EXCEPT !.pc = IF sink # <<>> THEN "run" ELSE "wait",
               !.ctx = ctx, !.data = NoData, !.sink = sink]

\* the loop goes (back) to its select statement, evaluating c.ctx.Done()
ToSelect(lp, sink) ==
    [lp EXCEPT !.pc = "wait", !.ctx = ctx, !.data = NoData, !.sink = sink]

\* collect() from exec.CommandContext to data.Validate(), the environment
\* answering with a primary output of Outs, supplementary command errors of
\* Errs and a /proc/stat reading of Reads
CollectRunIn(l, Outs, Errs, Reads) ==
    /\ loops[l].pc = "run"
    /\ \E primaryErr \in BOOLEAN, out \in Outs,
          vramErr \in Errs, clockErr \in Errs, cur \in Reads :
         /\ cur = ReadFailed \/ lastCPUStats = NoCPUStats \/ cur.Total >= lastCPUStats.Total
         /\ \E p \in ParseRocmSMIOutput(CombinedOutput(out, vramErr, clockErr)) :
              LET r == Collect(primaryErr \/ loops[l].ctx \in cancelled,
                               p, cur, lastCPUStats, now)
              IN  /\ lastCPUStats' = r.last
                  /\ loops' = [loops EXCEPT ![l] =
                                 IF r.store
                                 THEN [loops[l] EXCEPT !.pc = "store",
                                                       !.sink = r.sink,
                                                       !.data = r.data]
                                 ELSE ToSelect(loops[l], r.sink)]
    /\ cancelled' = cancelled \cap CtxRefs(ctx, loops')
    /\ UNCHANGED <<history, maxHistory, interval, ctx, now,
                   reader, log, lastCall, dataMutex, calls, aux>>
    /\ reply' = NoReply

\* collect() under every answer of the environment
CollectRun(l) ==
    CollectRunIn(l, PrimaryOutputs, BOOLEAN, CPUSnapshots \cup {ReadFailed})

\* collect() when the supplementary commands fail and /proc/stat does not move
CollectRunPlain(l) ==
    CollectRunIn(l, PrimaryOutputs, {TRUE}, {[Total |-> 100, Idle |-> 50]})

\* collect() when rocm-smi prints one healthy device line
CollectRunOk(l) ==
    CollectRunIn(l, {OutOk}, {TRUE}, {[Total |-> 100, Idle |-> 50]})

\* Store as it would be if the size limit kept the head of the slice
StoreKeepOldest(hist, data, max) ==
    LET h == Append(hist, data)
    IN  IF Len(h) > max THEN SubSeq(h, 1, max) ELSE h

\* c.history = append(c.history, *data), then the history size limit
Store(hist, data, max) ==
    LET h == Append(hist, data)
    IN  IF Len(h) > max THEN SubSeq(h, Len(h) - max + 1, Len(h)) ELSE h

\* what a reader's entry becomes when the store drops its first n elements:
\* an entry sharing a dropped element's device array now holds it alone
Detach(e, hist, n) ==
    IF e.at = 0 THEN e
    ELSE IF e.at <= n THEN [e EXCEPT !.at = 0, !.GPUs = hist[e.at].GPUs]
    ELSE [e EXCEPT !.at = e.at - n]

Detached(rd, hist, n) == [i \in 1..Len(rd) |-> Detach(rd[i], hist, n)]

\* the observer's record of the appends since the store was last empty; it
\* keeps at most the last max + 1 of them
Logged(lg, d, max) ==
    LET g == Append(lg, d)
    IN  IF Len(g) > max + 1 THEN Tail(g) ELSE g

\* collect() from c.dataMutex.Lock() to c.dataMutex.Unlock(), and the return
\* to the select statement
StoreStep(l) ==
    /\ loops[l].pc = "store"
    /\ history' = Store(history, loops[l].data, maxHistory)
    /\ reader' = Detached(reader, history, Len(history) + 1 - Len(history'))
    /\ loops' = [loops EXCEPT ![l] = ToSelect(loops[l], loops[l].sink)]
    /\ cancelled' = cancelled \cap CtxRefs(ctx, loops')
    /\ UNCHANGED <<maxHistory, interval, ctx, lastCPUStats, now, lastCall, dataMutex, calls, aux>>
    /\ reply' = NoReply

\* the store step, the observer recording the appended sample
CollectStore(l) ==
    /\ StoreStep(l)
    /\ log' = Logged(log, loops[l].data, maxHistory)

\* the store step, nobody recording
CollectStoreQuiet(l) ==
    /\ StoreStep(l)
    /\ log' = log

\* ClearHistory as it would be if it kept the newest sample
ClearHistoryKeepsLatest ==
    /\ history' = LastN(history, 1)
    /\ reader' = Detached(reader, history, Len(history) - Len(history'))
    /\ log' = <<>>
    /\ UNCHANGED <<maxHistory, interval, ctx, cancelled, loops, lastCPUStats,
                   now, lastCall, dataMutex, calls, aux>>
    /\ reply' = NoReply

\* Collector.ClearHistory
ClearHistory ==
    /\ history' = <<>>
    /\ reader' = Detached(reader, history, Len(history))
    /\ log' = <<>>
    /\ UNCHANGED <<maxHistory, interval, ctx, cancelled, loops, lastCPUStats,
                   now, lastCall, dataMutex, calls, aux>>
    /\ reply' = NoReply

\* the wall clock advances
Advance ==
    /\ now < MaxTime
    /\ now' = now + 1
    /\ UNCHANGED <<history, maxHistory, interval, ctx, cancelled, loops,
                   lastCPUStats, reader, log, lastCall, dataMutex, calls, aux>>
    /\ reply' = NoReply

(***************************************************************************)
(* The program on a moving clock: main() starts the collector, the HTTP     *)
(* handlers call SetInterval, the signal handler calls Stop.                *)
(***************************************************************************)
\* main(): collector.Start() when no loop is running
StartOnce == Live(loops) = {} /\ Start

Next ==
    \/ StartOnce
    \/ Stop
    \/ \E d \in Durations : SetInterval(d)
    \/ \E l \in LoopIds : LoopStart(l)
    \/ \E l \in LoopIds : LoopTick(l)
    \/ \E l \in LoopIds : LoopExit(l)
    \/ \E l \in LoopIds : CollectRunPlain(l)
    \/ \E l \in LoopIds : CollectStoreQuiet(l)
    \/ ClearHistory
    \/ Advance

Spec == Init /\ [][Next]_vars

(***************************************************************************)
(* The scheduler alone under any sequence of calls of Start, Stop and        *)
(* SetInterval: no clock, no clearing; with the fairness the Go             *)
(* runtime gives a goroutine: a goroutine that can take a step takes it,    *)
(* the ticker keeps firing, and a select whose Done case is ready again and *)
(* again is not decided for the ticker forever.                             *)
(***************************************************************************)
SchedNext ==
    \/ Start
    \/ Stop
    \/ \E d \in Durations : SetInterval(d)
    \/ \E l \in LoopIds : LoopStart(l)
    \/ \E l \in LoopIds : LoopTick(l)
    \/ \E l \in LoopIds : LoopExit(l)
    \/ \E l \in LoopIds : CollectRunPlain(l)
    \/ \E l \in LoopIds : CollectStoreQuiet(l)

Fairness ==
    \A l \in LoopIds :
        /\ WF_vars(LoopStart(l))
        /\ WF_vars(LoopTick(l))
        /\ SF_vars(LoopExit(l))
        /\ WF_vars(CollectRunPlain(l))
        /\ WF_vars(CollectStoreQuiet(l))

FairSpec == Init /\ [][SchedNext]_vars /\ Fairness

(***************************************************************************)
(* The sampler as main() deploys it: one collectLoop, every answer of the   *)
(* environment.                                                            *)
(***************************************************************************)
SamplerNext ==
    \/ StartOnce
    \/ Stop
    \/ \E l \in LoopIds : LoopStart(l)
    \/ \E l \in LoopIds : LoopTick(l)
    \/ \E l \in LoopIds : LoopExit(l)
    \/ \E l \in LoopIds : CollectRun(l)
    \/ \E l \in LoopIds : CollectStoreQuiet(l)
    \/ ClearHistory

SamplerSpec == Init /\ [][SamplerNext]_vars

(***************************************************************************)
(* The history store under one collectLoop, the observer recording every    *)
(* append.                                                                 *)
(***************************************************************************)
StoreNext ==
    \/ StartOnce
    \/ Stop
    \/ \E l \in LoopIds : LoopStart(l)
    \/ \E l \in LoopIds : LoopTick(l)
    \/ \E l \in LoopIds : LoopExit(l)
    \/ \E l \in LoopIds : CollectRunPlain(l)
    \/ \E l \in LoopIds : CollectStore(l)
    \/ ClearHistory
    \/ Advance

StoreSpec == Init /\ [][StoreNext]_vars

\* Collector.GetStats: the fields that do not depend on the stored samples
GetStats ==
    [history_size |-> Len(history), max_history |-> maxHistory,
     interval_seconds |-> interval]

(***************************************************************************)
(* A caller of the query contract and what it may do to the values it got.  *)
(***************************************************************************)
\* the devices a reader's entry shows
EntryGPUs(e) == IF e.at > 0 THEN history[e.at].GPUs ELSE e.GPUs

\* the copy of the header of c.history[i]
HeaderCopy(i) ==
    [Timestamp |-> history[i].Timestamp, CPUUsage |-> history[i].CPUUsage,
     GPUs |-> <<>>, at |-> i]

\* fmt.Errorf("no data available")
NoDataError == "no data available"

\* GetHistory as it would be if it returned the newest sample first
GetHistoryNewestFirst ==
    /\ reader' = [i \in 1..Len(history) |-> HeaderCopy(Len(history) + 1 - i)]
    /\ UNCHANGED <<history, maxHistory, interval, ctx, cancelled, loops,
                   lastCPUStats, now, log, lastCall, dataMutex, calls, aux>>
    /\ reply' = [op |-> "GetHistory", arg |-> Len(history), err |-> ""]

\* Collector.GetHistory
GetHistory ==
    /\ reader' = [i \in 1..Len(history) |-> HeaderCopy(i)]
    /\ UNCHANGED <<history, maxHistory, interval, ctx, cancelled, loops,
                   lastCPUStats, now, log, lastCall, dataMutex, calls, aux>>
    /\ reply' = [op |-> "GetHistory", arg |-> Len(history), err |-> ""]

\* GetLatest as it would be if it returned the first element of the history
GetLatestOldest ==
    /\ reader' = IF Len(history) = 0 THEN <<>> ELSE <<HeaderCopy(1)>>
    /\ UNCHANGED <<history, maxHistory, interval, ctx, cancelled, loops,
                   lastCPUStats, now, log, lastCall, dataMutex, calls, aux>>
    /\ reply' = [op |-> "GetLatest", arg |-> 0,
                 err |-> IF Len(history) = 0 THEN NoDataError ELSE ""]

\* Collector.GetLatest
GetLatest ==
    /\ reader' = IF Len(history) = 0 THEN <<>> ELSE <<HeaderCopy(Len(history))>>
    /\ UNCHANGED <<history, maxHistory, interval, ctx, cancelled, loops,
                   lastCPUStats, now, log, lastCall, dataMutex, calls, aux>>
    /\ reply' = [op |-> "GetLatest", arg |-> 0,
                 err |-> IF Len(history) = 0 THEN NoDataError ELSE ""]

\* http.Error(w, "No data available", http.StatusNotFound)
NoDataStatus == "No data available"

\* window durations a client asks for (seconds)
WindowDurations == {0, 1, 2}

\* the indices of hist, in order, of the samples with Timestamp.After(cutoff)
AfterCutoff(hist, cutoff) ==
    SelectSeq([i \in 1..Len(hist) |-> i], LAMBDA i : hist[i].Timestamp > cutoff)

\* the window query as it would be if it kept the sample taken at the cutoff
WindowInclusive(d) ==
    LET keep == SelectSeq([i \in 1..Len(history) |-> i],
                          LAMBDA i : history[i].Timestamp >= now - d)
    IN  /\ reader' = [j \in 1..Len(keep) |-> HeaderCopy(keep[j])]
        /\ reply' = [op |-> "window", arg |-> d,
                     err |-> IF Len(history) = 0 THEN NoDataStatus ELSE ""]
        /\ UNCHANGED <<history, maxHistory, interval, ctx, cancelled, loops,
                       lastCPUStats, now, log, lastCall, dataMutex, calls, aux>>

\* statsHandler with a window parameter: GetHistory, then the filter on
\* data.Timestamp.After(time.Now().Add(-duration))
Window(d) ==
    LET keep == AfterCutoff(history, now - d)
    IN  /\ reader' = [j \in 1..Len(keep) |-> HeaderCopy(keep[j])]
        /\ reply' = [op |-> "window", arg |-> d,
                     err |-> IF Len(history) = 0 THEN NoDataStatus ELSE ""]
        /\ UNCHANGED <<history, maxHistory, interval, ctx, cancelled, loops,
                       lastCPUStats, now, log, lastCall, dataMutex, calls, aux>>

\* the caller assigns to a field of a returned RocmData: snap[i].CPUUsage = v
CallerSetField(i, v) ==
    /\ i \in 1..Len(reader)
    /\ reader' = [reader EXCEPT ![i].CPUUsage = v]
    /\ UNCHANGED <<history, maxHistory, interval, ctx, cancelled, loops,
                   lastCPUStats, now, log, lastCall, dataMutex, calls, aux>>
    /\ reply' = NoReply

\* the caller assigns through the GPUs slice of a returned RocmData:
\* snap[i].GPUs[j].Temperature = v
CallerSetDevice(i, j, v) ==
    /\ i \in 1..Len(reader)
    /\ j \in 1..Len(EntryGPUs(reader[i]))
    /\ IF reader[i].at > 0
         THEN /\ history' = [history EXCEPT ![reader[i].at].GPUs[j].Temperature = v]
              /\ reader' = reader
         ELSE /\ reader' = [reader EXCEPT ![i].GPUs[j].Temperature = v]
              /\ history' = history
    /\ UNCHANGED <<maxHistory, interval, ctx, cancelled, loops,
                   lastCPUStats, now, log, lastCall, dataMutex, calls, aux>>
    /\ reply' = NoReply

\* values a caller writes
CallerValues == {0, 200}

CallerWrites ==
    \/ \E i \in 1..MaxHist, v \in CallerValues : CallerSetField(i, v)
    \/ \E i \in 1..MaxHist, j \in 1..2, v \in CallerValues : CallerSetDevice(i, j, v)

ReaderNext ==
    \/ StartOnce
    \/ \E l \in LoopIds : LoopStart(l)
    \/ \E l \in LoopIds : LoopTick(l)
    \/ \E l \in LoopIds : CollectRunPlain(l)
    \/ \E l \in LoopIds : CollectStoreQuiet(l)
    \/ ClearHistory
    \/ Advance
    \/ GetHistory
    \/ GetLatest
    \/ \E i \in 1..MaxHist, v \in CallerValues : CallerSetField(i, v)
    \/ \E i \in 1..MaxHist, j \in 1..2, v \in CallerValues : CallerSetDevice(i, j, v)

ReaderSpec == Init /\ [][ReaderNext]_vars

(***************************************************************************)
(* Accesses outside c.dataMutex.                                           *)
(***************************************************************************)
\* what the rest of a loop's current stretch of code reads or writes without
\* holding a lock: time.NewTicker(c.interval) and collect()'s c.ctx when it
\* starts; GetCPUUsage's lastCPUStats and then the select's c.ctx in a
\* round; c.ctx at the select or the next collect() otherwise
LoopAccesses(lp) ==
    CASE lp.pc = "start" -> {"interval", "ctx"}
      [] lp.pc = "run"   -> {"lastCPUStats", "ctx"}
      [] lp.pc = "none"  -> {}
      [] OTHER           -> {"ctx"}

\* what SetInterval(d), d > 0, assigns without holding a lock
SetIntervalWrites == {"interval", "ctx"}

(***************************************************************************)
(* The history under its lock, step by step.  A loop that is to store its   *)
(* sample takes c.dataMutex, appends, cuts the slice to maxHistory and      *)
(* releases; a reading call (GetHistory, GetLatest, GetStats) takes the     *)
(* read lock, reads and releases; ClearHistory takes the lock, empties the  *)
(* slice and releases.  Lock waits while anybody holds the mutex, RLock     *)
(* while a writer holds it.  The observer records an append or a clear when *)
(* its writer releases the lock.                                            *)
(***************************************************************************)
ReadOps == {"GetHistory", "GetLatest", "GetStats"}

\* c.dataMutex.Lock() in collect()
StoreLock(l) ==
    /\ loops[l].pc = "store"
    /\ dataMutex = Unlocked
    /\ dataMutex' = [dataMutex EXCEPT !.writer = l]
    /\ loops' = [loops EXCEPT ![l].pc = "locked"]
    /\ UNCHANGED <<history, maxHistory, interval, ctx, cancelled,
                   lastCPUStats, now, reader, log, lastCall, calls, aux>>
    /\ reply' = NoReply

\* c.history = append(c.history, *data)
StoreAppend(l) ==
    /\ loops[l].pc = "locked"
    /\ history' = Append(history, loops[l].data)
    /\ loops' = [loops EXCEPT ![l].pc = "appended"]
    /\ UNCHANGED <<maxHistory, interval, ctx, cancelled,
                   lastCPUStats, now, reader, log, lastCall, dataMutex, calls, aux>>
    /\ reply' = NoReply

\* if len(c.history) > c.maxHistory { c.history = c.history[len-max:] }
StoreTrim(l) ==
    /\ loops[l].pc = "appended"
    /\ history' = IF Len(history) > maxHistory
                    THEN SubSeq(history, Len(history) - maxHistory + 1, Len(history))
                    ELSE history
    /\ loops' = [loops EXCEPT ![l].pc = "trimmed"]
    /\ UNCHANGED <<maxHistory, interval, ctx, cancelled,
                   lastCPUStats, now, reader, log, lastCall, dataMutex, calls, aux>>
    /\ reply' = NoReply

\* c.dataMutex.Unlock() in collect(), and the return to the select statement
StoreUnlock(l) ==
    /\ loops[l].pc = "trimmed"
    /\ dataMutex' = [dataMutex EXCEPT !.writer = 0]
    /\ log' = Logged(log, loops[l].data, maxHistory)
    /\ loops' = [loops EXCEPT ![l] = ToSelect(loops[l], loops[l].sink)]
    /\ cancelled' = cancelled \cap CtxRefs(ctx, loops')
    /\ UNCHANGED <<history, maxHistory, interval, ctx,
                   lastCPUStats, now, reader, lastCall, calls, aux>>
    /\ reply' = NoReply

\* RLock as it would be if it did not wait for the writer
CallRLockPastWriter(k, op) ==
    /\ calls[k].pc = "idle"
    /\ dataMutex' = [dataMutex EXCEPT !.readers = @ \cup {k}]
    /\ calls' = [calls EXCEPT ![k] = [IdleCall EXCEPT !.pc = "rlocked", !.op = op]]
    /\ UNCHANGED <<history, maxHistory, interval, ctx, cancelled, loops,
                   lastCPUStats, now, reader, log, lastCall, aux>>
    /\ reply' = NoReply

\* c.dataMutex.RLock() in GetHistory, GetLatest or GetStats
CallRLock(k, op) ==
    /\ calls[k].pc = "idle"
    /\ dataMutex.writer = 0
    /\ dataMutex' = [dataMutex EXCEPT !.readers = @ \cup {k}]
    /\ calls' = [calls EXCEPT ![k] = [IdleCall EXCEPT !.pc = "rlocked", !.op = op]]
    /\ UNCHANGED <<history, maxHistory, interval, ctx, cancelled, loops,
                   lastCPUStats, now, reader, log, lastCall, aux>>
    /\ reply' = NoReply

\* the call reads c.history: its length, and whether it is what the last
\* completed append or clear left
CallRead(k) ==
    /\ calls[k].pc = "rlocked"
    /\ calls' = [calls EXCEPT ![k].pc = "read",
                              ![k].size = Len(history),
                              ![k].whole = (history = LastN(log, maxHistory))]
    /\ UNCHANGED <<history, maxHistory, interval, ctx, cancelled, loops,
                   lastCPUStats, now, reader, log, lastCall, dataMutex, aux>>
    /\ reply' = NoReply

\* the deferred c.dataMutex.RUnlock()
CallRUnlock(k) ==
    /\ calls[k].pc = "read"
    /\ dataMutex' = [dataMutex EXCEPT !.readers = @ \ {k}]
    /\ calls' = [calls EXCEPT ![k] = IdleCall]
    /\ UNCHANGED <<history, maxHistory, interval, ctx, cancelled, loops,
                   lastCPUStats, now, reader, log, lastCall, aux>>
    /\ reply' = NoReply

\* c.dataMutex.Lock() in ClearHistory
CallLock(k) ==
    /\ calls[k].pc = "idle"
    /\ dataMutex = Unlocked
    /\ dataMutex' = [dataMutex EXCEPT !.writer = MaxLoops + k]
    /\ calls' = [calls EXCEPT ![k] = [IdleCall EXCEPT !.pc = "locked",
                                                      !.op = "ClearHistory"]]
    /\ UNCHANGED <<history, maxHistory, interval, ctx, cancelled, loops,
                   lastCPUStats, now, reader, log, lastCall, aux>>
    /\ reply' = NoReply

\* c.history = c.history[:0]
CallClear(k) ==
    /\ calls[k].pc = "locked"
    /\ history' = <<>>
    /\ calls' = [calls EXCEPT ![k].pc = "cleared"]
    /\ UNCHANGED <<maxHistory, interval, ctx, cancelled, loops,
                   lastCPUStats, now, reader, log, lastCall, dataMutex, aux>>
    /\ reply' = NoReply

\* the deferred c.dataMutex.Unlock() of ClearHistory
CallUnlock(k) ==
    /\ calls[k].pc = "cleared"
    /\ dataMutex' = [dataMutex EXCEPT !.writer = 0]
    /\ log' = <<>>
    /\ calls' = [calls EXCEPT ![k] = IdleCall]
    /\ UNCHANGED <<history, maxHistory, interval, ctx, cancelled, loops,
                   lastCPUStats, now, reader, lastCall, aux>>
    /\ reply' = NoReply

LockNext ==
    \/ StartOnce
    \/ \E d \in {1} : SetInterval(d)
    \/ \E l \in LoopIds : LoopStart(l)
    \/ \E l \in LoopIds : LoopTick(l)
    \/ \E l \in LoopIds : CollectRunOk(l)
    \/ \E l \in LoopIds : StoreLock(l)
    \/ \E l \in LoopIds : StoreAppend(l)
    \/ \E l \in LoopIds : StoreTrim(l)
    \/ \E l \in LoopIds : StoreUnlock(l)
    \/ \E k \in CallIds, op \in ReadOps : CallRLock(k, op)
    \/ \E k \in CallIds : CallRead(k)
    \/ \E k \in CallIds : CallRUnlock(k)
    \/ \E k \in CallIds : CallLock(k)
    \/ \E k \in CallIds : CallClear(k)
    \/ \E k \in CallIds : CallUnlock(k)
    \/ Advance

LockSpec == Init /\ [][LockNext]_vars

(***************************************************************************)
(* The query contract against a live collector: the handlers read while the *)
(* loops append, SetInterval restarts the loop, the store is cleared and    *)
(* the clock moves; the observer records every append.                      *)
(***************************************************************************)
QueryNext ==
    \/ StartOnce
    \/ \E d \in {1} : SetInterval(d)
    \/ \E l \in LoopIds : LoopStart(l)
    \/ \E l \in LoopIds : LoopTick(l)
    \/ \E l \in LoopIds : CollectRunOk(l)
    \/ \E l \in LoopIds : CollectStore(l)
    \/ ClearHistory
    \/ Advance
    \/ GetHistory
    \/ GetLatest
    \/ \E d \in WindowDurations : Window(d)

QuerySpec == Init /\ [][QueryNext]_vars

(***************************************************************************)
(* The on-demand operations that run external commands: GetGPUStaticInfo   *)
(* and the diagnostic suite.  A command started without a deadline returns *)
(* only when the process exits; one started under a deadline is killed     *)
(* when the deadline passes.                                               *)
(***************************************************************************)
\* what a rocm-smi sub-query command does: it fails, prints a value for
\* GPU[0], prints "Not supported" for GPU[0], or prints no line for GPU[0]
CmdAnswers == {"error", "value", "unsupported", "nomatch"}

FirmwareError == "failed to get firmware info"

\* getGPUFirmwareInfo: the command's error is returned to the caller
getGPUFirmwareInfo(a) ==
    IF a = "error" THEN [err |-> TRUE, v |-> ""]
    ELSE [err |-> FALSE, v |-> IF a = "value" THEN "value" ELSE "empty"]

\* the scan of the output for the GPU[0] line, shared by the five getters
GPU0Line(a) ==
    IF a = "value" THEN "value"
    ELSE IF a = "unsupported" THEN "Not Available"
    ELSE "Unknown"

getGPUProductName(a) == IF a = "error" THEN "Unknown" ELSE GPU0Line(a)
getGPUSerialNumber(a) == IF a = "error" THEN "Not Available" ELSE GPU0Line(a)
getGPUUniqueID(a) == IF a = "error" THEN "Not Available" ELSE GPU0Line(a)
getGPUVRAMVendor(a) == IF a = "error" THEN "Not Available" ELSE GPU0Line(a)
getGPUBusInfo(a) == IF a = "error" THEN "Not Available" ELSE GPU0Line(a)

\* GetGPUStaticInfo is entered by gpuInfoHandler: the firmware command starts
InfoCall ==
    /\ info.pc = "idle" \/ (info.pc = "done" /\ info.by = "gpuInfoHandler")
    /\ info' = [NoInfo EXCEPT !.pc = "fw", !.by = "gpuInfoHandler"]
    /\ UNCHANGED <<history, maxHistory, interval, ctx, cancelled, loops,
                   lastCPUStats, now, reader, log, lastCall, dataMutex, calls,
                   input, parsed, exported, test>>
    /\ reply' = NoReply

\* GetGPUStaticInfo after the running sub-query command has answered a
GetGPUStaticInfo(a) ==
    CASE info.pc = "fw" ->
           LET r == getGPUFirmwareInfo(a)
           IN  IF r.err THEN [info EXCEPT !.pc = "done", !.err = FirmwareError]
               ELSE [info EXCEPT !.pc = "name", !.FirmwareInfo = r.v]
      [] info.pc = "name" ->
           [info EXCEPT !.pc = "serial", !.ProductName = getGPUProductName(a)]
      [] info.pc = "serial" ->
           [info EXCEPT !.pc = "uid", !.SerialNumber = getGPUSerialNumber(a)]
      [] info.pc = "uid" ->
           [info EXCEPT !.pc = "vendor", !.UniqueID = getGPUUniqueID(a)]
      [] info.pc = "vendor" ->
           [info EXCEPT !.pc = "bus", !.VRAMVendor = getGPUVRAMVendor(a)]
      [] info.pc = "bus" ->
           [info EXCEPT !.pc = "done", !.BusInfo = getGPUBusInfo(a)]

\* the running sub-query command exits with an answer of Answers
InfoReturnIn(Answers) ==
    /\ info.pc \in {"fw", "name", "serial", "uid", "vendor", "bus"}
    /\ \E a \in Answers : info' = GetGPUStaticInfo(a)
    /\ UNCHANGED <<history, maxHistory, interval, ctx, cancelled, loops,
                   lastCPUStats, now, reader, log, lastCall, dataMutex, calls,
                   input, parsed, exported, test>>
    /\ reply' = NoReply

InfoReturn == InfoReturnIn({"error", "value"})

\* rocmTestHandler: RunTests starts the command of the first test
TestStart ==
    /\ test.pc \in {"idle", "done"}
    /\ test' = [NoTest EXCEPT !.pc = "run", !.n = 1]
    /\ UNCHANGED <<history, maxHistory, interval, ctx, cancelled, loops,
                   lastCPUStats, now, reader, log, lastCall, dataMutex, calls,
                   input, parsed, exported, info>>
    /\ reply' = NoReply

\* RunTests after runSingleTest returned with result.Success = ok
TestResult(ok, timeout) ==
    [pc |-> IF test.n = NumTests THEN "done" ELSE "run",
     n  |-> IF test.n = NumTests THEN test.n ELSE test.n + 1,
     OverallSuccess |-> test.OverallSuccess /\ ok,
     timedOut |-> test.timedOut \/ timeout]

\* the command of the running test exits before the deadline
TestReturn ==
    /\ test.pc = "run"
    /\ \E ok \in BOOLEAN : test' = TestResult(ok, FALSE)
    /\ UNCHANGED <<history, maxHistory, interval, ctx, cancelled, loops,
                   lastCPUStats, now, reader, log, lastCall, dataMutex, calls,
                   input, parsed, exported, info>>
    /\ reply' = NoReply

\* the deadline of the running test passes: the command is killed
TestTimeout ==
    /\ test.pc = "run"
    /\ test' = TestResult(FALSE, TRUE)
    /\ UNCHANGED <<history, maxHistory, interval, ctx, cancelled, loops,
                   lastCPUStats, now, reader, log, lastCall, dataMutex, calls,
                   input, parsed, exported, info>>
    /\ reply' = NoReply

\* one collectLoop and the two on-demand operations; every step the program
\* takes by itself is fair, and so is the expiry of a deadline, while the
\* exit of an external process is not
ExecNext ==
    \/ StartOnce
    \/ \E l \in LoopIds : LoopStart(l)
    \/ \E l \in LoopIds : LoopTick(l)
    \/ \E l \in LoopIds : CollectRunOk(l)
    \/ \E l \in LoopIds : CollectStoreQuiet(l)
    \/ InfoCall
    \/ InfoReturn
    \/ TestStart
    \/ TestReturn
    \/ TestTimeout

ExecFairness ==
    /\ \A l \in LoopIds :
          /\ WF_vars(LoopStart(l))
          /\ WF_vars(CollectRunOk(l))
          /\ WF_vars(CollectStoreQuiet(l))
    /\ WF_vars(TestTimeout)

ExecSpec == Init /\ [][ExecNext]_vars /\ ExecFairness

(***************************************************************************)
(* The parser applied to a text, and one collection round whose primary    *)
(* command prints that text.                                               *)
(***************************************************************************)
MaxLines == 3

DeviceIds == 0..2

\* the summary line of device id reporting t°C; power and the trailing
\* percentages differ from device to device
DeviceLine(id, t) ==
    <<TInt(id), TDegC(t), TWatt(100 + 10 * id), TPct(30), TAuto,
      TPct(10 + id), TPct(50 + id)>>

\* "0  45.0c  120.0W  ...  50%  80%"
LineLowC == <<TInt(0), TLowC(45), TWatt(120), TWord, TPct(50), TPct(80)>>

\* a line with metrics that does not start with a device index
LineLoose == <<TWord, TDegC(60), TWatt(90), TPct(20), TPct(40)>>

ParserLines ==
    {DeviceLine(id, 45) : id \in DeviceIds}
        \cup {DeviceLine(0, 75), LineLowC, LineLoose, LineBanner, <<>>}

\* the texts of at most MaxLines lines
ParserInputs == UNION {[1..k -> ParserLines] : k \in 0..MaxLines}

ParserInit ==
    /\ NewCollector
    /\ input \in ParserInputs
    /\ NoOnDemand

\* parser.ParseRocmSMIOutput(input)
Parse ==
    /\ ~parsed.done
    /\ \E p \in ParseRocmSMIOutput(input) :
          parsed' = [done |-> TRUE, err |-> p.err, GPUs |-> p.GPUs]
    /\ UNCHANGED <<history, maxHistory, interval, ctx, cancelled, loops,
                   lastCPUStats, now, reader, log, lastCall, dataMutex, calls,
                   input, exported, info, test>>
    /\ reply' = NoReply

\* collect() when rocm-smi prints input and the supplementary commands fail
CollectRunInput(l) ==
    CollectRunIn(l, {input}, {TRUE}, {[Total |-> 100, Idle |-> 50]})

ParserNext ==
    \/ Parse
    \/ StartOnce
    \/ \E l \in LoopIds : LoopStart(l)
    \/ \E l \in LoopIds : CollectRunInput(l)
    \/ \E l \in LoopIds : CollectStoreQuiet(l)

ParserSpec == ParserInit /\ [][ParserNext]_vars

(***************************************************************************)
(* The Prometheus export of the latest sample.  The figures that decide    *)
(* the threshold gauges are drawn from the values a stored sample can      *)
(* hold: temperatures around the two thresholds, VRAM figures in GB around *)
(* the 80% mark or absent.                                                 *)
(***************************************************************************)
ThresholdTemps == {70, 71, 80, 81}
ThresholdVRAM  == {[used |-> 0, total |-> 0], [used |-> 8, total |-> 10],
                   [used |-> 9, total |-> 10]}

ThresholdGPU(id, t, m) ==
    [ID |-> id, Temperature |-> t, Power |-> 120,
     VRAMUsage |-> m.used, VRAMTotal |-> m.total, GPUUsage |-> 80,
     FanSpeed |-> 30, SCLKFreq |-> 0, MCLKFreq |-> 0]

\* stored samples of one device or of two
ThresholdSamples ==
    LET G(id) == {ThresholdGPU(id, t, m) : t \in ThresholdTemps, m \in ThresholdVRAM}
    IN  {[Timestamp |-> 0, GPUs |-> <<g>>, CPUUsage |-> 0] : g \in G(0)}
          \cup {[Timestamp |-> 0, GPUs |-> <<g, h>>, CPUUsage |-> 0] :
                   g \in G(0), h \in {ThresholdGPU(1, 81, m) : m \in ThresholdVRAM}}

\* a history of one sample, or of a cool sample followed by a newer one
ExportHistories ==
    {<<d>> : d \in ThresholdSamples}
      \cup {<<[Timestamp |-> 0,
               GPUs |-> <<ThresholdGPU(0, 70, [used |-> 0, total |-> 0])>>,
               CPUUsage |-> 0], d>> : d \in ThresholdSamples}

\* the collector after rounds that stored one of ExportHistories
ExportInit ==
    /\ history \in ExportHistories
    /\ log = history
    /\ maxHistory = NewCollectorMaxHistory(MaxHist)
    /\ interval = NewCollectorInterval(1)
    /\ ctx = 0
    /\ cancelled = {}
    /\ loops = [l \in LoopIds |-> NoLoop]
    /\ lastCPUStats = [Total |-> 100, Idle |-> 50]
    /\ now = 0
    /\ reader = <<>>
    /\ lastCall = NoCall
    /\ reply = NoReply
    /\ dataMutex = Unlocked
    /\ calls = [k \in CallIds |-> IdleCall]
    /\ input = EmptyText
    /\ NoOnDemand

LatestError == "failed to get latest data"

\* the Performance Thresholds block of ExportPrometheus for one GPU;
\* (VRAMUsage / VRAMTotal) * 100 > 80 is compared without the division
Thresholds(gpu) ==
    [ID       |-> gpu.ID,
     warning  |-> IF gpu.Temperature > 80 THEN 0
                  ELSE IF gpu.Temperature > 70 THEN 1 ELSE 0,
     critical |-> IF gpu.Temperature > 80 THEN 1 ELSE 0,
     vramHigh |-> IF gpu.VRAMTotal > 0 /\ gpu.VRAMUsage * 100 > 80 * gpu.VRAMTotal
                  THEN 1 ELSE 0]

\* ExportPrometheus up to the first command of GetGPUStaticInfo
ExportCall ==
    /\ info.pc = "idle" \/ (info.pc = "done" /\ info.by = "gpuInfoHandler")
    /\ IF Len(history) = 0
       THEN /\ reply' = [op |-> "ExportPrometheus", arg |-> 0, err |-> LatestError]
            /\ UNCHANGED <<exported, info>>
       ELSE /\ exported' = [latest |-> Last(history), gauges |-> <<>>]
            /\ info' = [NoInfo EXCEPT !.pc = "fw", !.by = "ExportPrometheus"]
            /\ reply' = NoReply
    /\ UNCHANGED <<history, maxHistory, interval, ctx, cancelled, loops,
                   lastCPUStats, now, reader, log, lastCall, dataMutex, calls,
                   input, parsed, test>>

\* ExportPrometheus after GetGPUStaticInfo returned, whatever it returned
ExportPrometheus ==
    /\ info.pc = "done" /\ info.by = "ExportPrometheus"
    /\ exported' = [exported EXCEPT
                       !.gauges = [i \in 1..Len(exported.latest.GPUs) |->
                                      Thresholds(exported.latest.GPUs[i])]]
    /\ info' = NoInfo
    /\ reply' = [op |-> "ExportPrometheus",
                 arg |-> Len(exported.latest.GPUs), err |-> ""]
    /\ UNCHANGED <<history, maxHistory, interval, ctx, cancelled, loops,
                   lastCPUStats, now, reader, log, lastCall, dataMutex, calls,
                   input, parsed, test>>

ExportNext ==
    \/ ExportCall
    \/ InfoReturn
    \/ ExportPrometheus
    \/ ClearHistory

ExportSpec == ExportInit /\ [][ExportNext]_vars

(***************************************************************************)
(* The parser applied to a combined output: a primary output followed by   *)
(* lines of "rocm-smi --showmeminfo vram".                                 *)
(***************************************************************************)
MaxDetail == 2

\* the lines "GPU[i] : VRAM Total Memory (B): b" and
\* "GPU[i] : VRAM Total Used Memory (B): b"
DetailLines ==
    {<<TVramTotal(i, b)>> : i \in {0, 1}, b \in {0, BytesPerGB}}
        \cup {<<TVramUsed(i, b)>> : i \in {0, 1}, b \in {0, BytesPerGB}}

DetailOutputs == UNION {[1..k -> DetailLines] : k \in 1..MaxDetail}

SummaryOutputs ==
    {<<LineBanner, DeviceLine(0, 45)>>,
     <<LineBanner, DeviceLine(0, 45), DeviceLine(1, 45)>>,
     <<LineBanner, LineLoose>>}

\* combinedOutput with and without the output of the VRAM command
DetailInputs ==
    SummaryOutputs \cup {JoinNL(p, d) : p \in SummaryOutputs, d \in DetailOutputs}

DetailInit ==
    /\ NewCollector
    /\ input \in DetailInputs
    /\ NoOnDemand

DetailNext == Parse

DetailSpec == DetailInit /\ [][DetailNext]_vars

(***************************************************************************)
(* The collector under every configuration handed to NewCollector and      *)
(* every duration handed to SetInterval.                                   *)
(***************************************************************************)
\* values of config.MaxHistory
ConfigMaxHistories == {-1, 0, 1, MaxHist}

ConfigInit ==
    /\ history = <<>>
    /\ \E m \in ConfigMaxHistories : maxHistory = NewCollectorMaxHistory(m)
    /\ \E d \in Durations : interval = NewCollectorInterval(d)
    /\ ctx = 0
    /\ cancelled = {}
    /\ loops = [l \in LoopIds |-> NoLoop]
    /\ lastCPUStats = NoCPUStats
    /\ now = 0
    /\ reader = <<>>
    /\ log = <<>>
    /\ lastCall = NoCall
    /\ reply = NoReply
    /\ dataMutex = Unlocked
    /\ calls = [k \in CallIds |-> IdleCall]
    /\ input = EmptyText
    /\ NoOnDemand

\* a round on a healthy output, as long as the history is within MaxHist
CollectRunBounded(l) ==
    /\ Len(history) < MaxHist
    /\ CollectRunOk(l)

ConfigNext ==
    \/ StartOnce
    \/ Stop
    \/ \E d \in Durations : SetInterval(d)
    \/ \E l \in LoopIds : LoopStart(l)
    \/ \E l \in LoopIds : LoopTick(l)
    \/ \E l \in LoopIds : LoopExit(l)
    \/ \E l \in LoopIds : CollectRunBounded(l)
    \/ \E l \in LoopIds : CollectStoreQuiet(l)
    \/ ClearHistory

ConfigSpec == ConfigInit /\ [][ConfigNext]_vars

(***************************************************************************)
(* The scheduler driven by Start and Stop alone, under the fairness of the *)
(* goroutines.                                                             *)
(***************************************************************************)
RestartNext ==
    \/ Start
    \/ Stop
    \/ \E l \in LoopIds : LoopStart(l)
    \/ \E l \in LoopIds : LoopTick(l)
    \/ \E l \in LoopIds : LoopExit(l)
    \/ \E l \in LoopIds : CollectRunPlain(l)
    \/ \E l \in LoopIds : CollectStoreQuiet(l)

RestartSpec == Init /\ [][RestartNext]_vars /\ Fairness

(***************************************************************************)
(* Properties.                                                             *)
(***************************************************************************)
\* the scheduler is Running: a loop exists and the stop signal is not raised
Running == Live(loops) # {} /\ ctx \notin cancelled

\* Stop was the last scheduler call
Stopped == lastCall.op = "Stop"

InRange(x, hi) == 0 <= x /\ x <= hi

SampleInRange(d) ==
    /\ \A i \in 1..Len(d.GPUs) :
          /\ InRange(d.GPUs[i].Temperature, MaxTemperature)
          /\ InRange(d.GPUs[i].Power, MaxPower)
          /\ InRange(d.GPUs[i].GPUUsage, MaxPercent)
    /\ InRange(d.CPUUsage, MaxPercent)

\* C1 (StoreSpec): the history never holds more than maxHistory samples, and
\* it is exactly the last maxHistory samples appended since the store was
\* last empty, in the order of their appends (all of them while there are
\* fewer): the oldest are evicted first.
C1_BoundedKeepsNewest ==
    /\ Len(history) <= maxHistory
    /\ history = LastN(log, maxHistory)

\* more samples than maxHistory were appended, with different timestamps
C1_Witness ==
    /\ Len(log) = maxHistory + 1
    /\ Len(history) = maxHistory
    /\ log[1].Timestamp < log[2].Timestamp

\* C2 (Spec): at most one collection round is in progress at any moment.
C2_OneRoundAtATime == Cardinality(InRound(loops)) <= 1

\* C3 (Spec): the stored history is in non-decreasing timestamp order.
C3_TimestampOrder ==
    \A i \in 1..(Len(history) - 1) :
        history[i].Timestamp <= history[i + 1].Timestamp

\* C4 (ReaderSpec): nothing a caller writes to a value returned by GetHistory
\* or GetLatest, the device records of a returned sample included, changes
\* the stored history.
C4_SnapshotIndependent == [][CallerWrites => history' = history]_vars

\* C5 (SamplerSpec): every stored sample, and every sample on its way into
\* the store, has all its devices and its host CPU usage within the
\* validation ranges.
C5_StoredSamplesInRange ==
    /\ \A i \in 1..Len(history) : SampleInRange(history[i])
    /\ \A l \in LoopIds : loops[l].pc = "store" => SampleInRange(loops[l].data)

\* a round was rejected by validation while the store holds samples, one of
\* them with a measured host CPU usage
C5_Witness ==
    /\ \E l \in LoopIds : loops[l].pc = "wait" /\ loops[l].sink = <<"validate">>
    /\ \E i \in 1..Len(history) : history[i].CPUUsage > 0

\* C6 as stated (SamplerSpec): a round that called the error sink, for
\* whatever error, appends no sample.
C6_AnyErrorMeansNoAppend ==
    [][\A l \in LoopIds :
         (loops[l].pc = "store" /\ loops'[l].pc = "wait") => loops[l].sink = <<>>]_vars

\* C6 amended (SamplerSpec): a round that reported a failure of the primary
\* command, of parsing or of validation ends without appending and leaves the
\* history as it was; a round that appends has reported nothing but a failed
\* host CPU read, and then stores the CPU usage 0.
C6_FatalErrorMeansNoAppend ==
    [][\A l \in LoopIds :
         /\ (loops[l].pc = "run" /\ loops'[l].pc = "wait")
               => /\ history' = history
                  /\ Range(loops'[l].sink) \cap {"exec", "parse", "validate"} # {}
         /\ (loops[l].pc = "run" /\ loops'[l].pc = "store")
               => Range(loops'[l].sink) \subseteq {"cpu"}
         /\ (loops[l].pc = "store" /\ loops'[l].pc = "wait")
               => /\ Range(loops[l].sink) \subseteq {"cpu"}
                  /\ loops[l].sink # <<>> => loops[l].data.CPUUsage = 0]_vars

\* a round that reported a failed CPU read and then a failed validation has
\* ended while the store holds a sample
C6_Witness ==
    /\ \E l \in LoopIds : loops[l].pc = "wait" /\ loops[l].sink = <<"cpu", "validate">>
    /\ Len(history) > 0

\* C7 (FairSpec): a loop exits only when the stop signal it waits on has been
\* raised; a round that ends leaves its loop alive; and a loop waiting after
\* a failed round starts a later round, unless it exits.
C7_FailureKeepsTicking ==
    /\ [][\A l \in LoopIds :
            /\ (loops[l].pc # "none" /\ loops'[l].pc = "none")
                  => loops[l].pc = "wait" /\ loops[l].ctx \in cancelled
            /\ (loops[l].pc = "run" /\ loops'[l].pc # "run")
                  => loops'[l].pc \in {"wait", "store"}]_vars
    /\ \A l \in LoopIds :
          (loops[l].pc = "wait" /\ loops[l].sink # <<>>)
             ~> (loops[l].pc = "run" \/ loops[l].pc = "none")

\* a loop waits for its next tick after a round that failed at parsing, no
\* stop signal raised
C7_Witness ==
    \E l \in LoopIds : /\ loops[l].pc = "wait"
                       /\ loops[l].sink = <<"parse">>
                       /\ cancelled = {}

\* C8 (FairSpec): after Stop, unless Start or SetInterval is called again,
\* every collection loop eventually exits; and from then on the history does
\* not change.
C8_StopEndsLoop ==
    /\ Stopped ~> (Live(loops) = {} \/ ~Stopped)
    /\ [][(Stopped /\ Live(loops) = {} /\ Stopped') => history' = history]_vars

\* Stop was called on a collector that had stored a sample, and its loop is gone
C8_Witness == Stopped /\ Live(loops) = {} /\ Len(history) > 0

\* C9 (Spec): the step that replaces the context of a Running scheduler is a
\* SetInterval(d) with d > 0; after it the scheduler is Running, GetStats
\* reports the interval d, and the history is what it was.
C9_SetIntervalRestarts ==
    [][(ctx' # ctx /\ Running)
          => /\ lastCall'.op = "SetInterval"
             /\ lastCall'.arg > 0
             /\ GetStats'.interval_seconds = lastCall'.arg
             /\ Running'
             /\ history' = history]_vars

\* SetInterval(2) was the last call, on a collector that had a loop and holds
\* samples
C9_Witness ==
    /\ lastCall = [op |-> "SetInterval", arg |-> 2]
    /\ GetStats.interval_seconds = 2
    /\ Cardinality(Live(loops)) = 2
    /\ Len(history) = maxHistory
    /\ Running

\* C10 (FairSpec): after SetInterval(d) with d > 0, unless another scheduler
\* call follows, the loops that ran before the call exit, so that eventually
\* no more than one loop, the restarted one, is left.
C10_OldLoopExits ==
    (lastCall.op = "SetInterval")
       ~> (Cardinality(Live(loops)) <= 1 \/ lastCall.op # "SetInterval")

\* C11 (Spec): a SetInterval(d) with d <= 0 changes nothing: the interval
\* (and what GetStats reports), the loops, the context and its cancellation,
\* and the history are what they were, and no error is reported.
C11_NonPositiveIsNoOp ==
    [][(reply'.op = "SetInterval" /\ reply'.arg <= 0)
          => /\ UNCHANGED <<interval, ctx, cancelled, loops, history>>
             /\ GetStats' = GetStats
             /\ Running' = Running
             /\ reply'.err = ""]_vars

\* SetInterval(0) was just called on a Running collector that holds a sample
\* and whose interval had been set to 2
C11_Witness ==
    /\ reply = [op |-> "SetInterval", arg |-> 0, err |-> ""]
    /\ Running
    /\ interval = 2
    /\ Len(history) > 0

\* C12 (Spec): the scheduler goes from Stopped to Running by Start only and
\* from Running to Stopped by Stop only, and a SetInterval(d) with d > 0 on a
\* Stopped scheduler leaves it Stopped and starts no loop.
C12_OnlyListedTransitions ==
    [][/\ (~Running /\ Running') => lastCall'.op = "Start"
       /\ (Running /\ ~Running') => lastCall'.op = "Stop"
       /\ (reply'.op = "SetInterval" /\ reply'.arg > 0 /\ ~Running)
             => (~Running' /\ Live(loops') = Live(loops))]_vars

\* C13 (Spec): a goroutine slot becomes a loop only by being started, the
\* first thing a started loop does is a collection round, and a loop comes to
\* wait for a tick only from a round: no tick is consumed before the first
\* round.
C13_FirstRoundImmediately ==
    [][\A l \in LoopIds :
         /\ (loops[l].pc = "none" /\ loops'[l].pc # "none") => loops'[l].pc = "start"
         /\ (loops[l].pc = "start" /\ loops'[l].pc # "start") => loops'[l].pc = "run"
         /\ (loops[l].pc # "wait" /\ loops'[l].pc = "wait")
               => loops[l].pc \in {"run", "store"}]_vars

\* the loop started by Start is in its first round: nothing stored yet, the
\* clock has not moved
C13_Witness ==
    /\ lastCall.op = "Start"
    /\ \E l \in LoopIds : loops[l].pc = "run"
    /\ history = <<>>
    /\ now = 0

\* the sample a reader's entry shows
Shown(e) == [Timestamp |-> e.Timestamp, GPUs |-> EntryGPUs(e), CPUUsage |-> e.CPUUsage]

\* C14 (QuerySpec): GetLatest fails with the no-data error and returns no
\* sample exactly when the history is empty; otherwise it returns, without
\* error, the last element of the history, which is the sample appended last.
C14_LatestOrNoData ==
    reply.op = "GetLatest" =>
        /\ (reply.err = NoDataError) <=> (history = <<>>)
        /\ reply.err \in {NoDataError, ""}
        /\ reply.err = NoDataError => reader = <<>>
        /\ reply.err = "" => /\ Len(reader) = 1
                             /\ Shown(reader[1]) = history[Len(history)]
                             /\ Shown(reader[1]) = log[Len(log)]

\* GetLatest just answered on a full history whose samples differ
C14_Witness ==
    /\ reply.op = "GetLatest"
    /\ Len(history) = maxHistory
    /\ history[1].Timestamp # history[Len(history)].Timestamp

\* C15 (QuerySpec): the snapshot GetHistory returns holds the stored samples,
\* that is the last appended ones that were not evicted, in the order of
\* their appends, whatever their timestamps.
C15_InsertionOrder ==
    reply.op = "GetHistory" =>
        /\ Len(reader) = Len(history)
        /\ \A i \in 1..Len(reader) :
              Shown(reader[i]) = LastN(log, maxHistory)[i]

\* GetHistory just returned a snapshot whose first sample has the later
\* timestamp
C15_Witness ==
    /\ reply.op = "GetHistory"
    /\ Len(reader) = 2
    /\ reader[1].Timestamp > reader[2].Timestamp

\* the indices in the history of the samples a returned sequence shares with
\* it
Ats(rd) == {rd[j].at : j \in 1..Len(rd)}

\* what any window query returns: copies of stored samples, in the order in
\* which the history holds them
WindowInOrder ==
    /\ \A j \in 1..Len(reader) :
          /\ reader[j].at \in 1..Len(history)
          /\ Shown(reader[j]) = history[reader[j].at]
    /\ \A j, k \in 1..Len(reader) : j < k => reader[j].at < reader[k].at

\* the returned sequence is a suffix of the snapshot
WindowIsSuffix == Ats(reader) = (Len(history) - Len(reader) + 1)..Len(history)

C16_NoEmptyDeviceList ==
    /\ \A i \in 1..Len(history) : Len(history[i].GPUs) > 0
    /\ \A l \in LoopIds : loops[l].pc = "store" => Len(loops[l].data.GPUs) > 0

\* a round was rejected by the parser, which found nothing to parse, while
\* the store holds a sample
C16_Witness ==
    /\ \E l \in LoopIds : loops[l].pc = "wait" /\ loops[l].sink = <<"parse">>
    /\ Len(history) > 0

\* the number of reports in sink that are of the kinds in K
Reports(sink, K) == Cardinality({i \in 1..Len(sink) : sink[i] \in K})

\* C19 as stated (SamplerSpec): a round calls the error sink at most once:
\* once when it ends without appending, never when it goes on to append.
C19_SinkAtMostOnce ==
    [][\A l \in LoopIds :
         (loops[l].pc = "run" /\ loops'[l].pc # "run")
            => /\ Len(loops'[l].sink) <= 1
               /\ loops'[l].pc = "wait" => Len(loops'[l].sink) = 1
               /\ loops'[l].pc = "store" => Len(loops'[l].sink) = 0]_vars

\* C19 amended (SamplerSpec): a round reports at most one failure of
\* execution, parsing or validation, exactly one when it ends without
\* appending and none when it goes on to append; besides, it reports a failed
\* host CPU read, at most once and before a validation failure, without
\* ending: at most two calls of the sink in a round, at most one in a round
\* that appends.
C19_OneFatalReportPerRound ==
    [][\A l \in LoopIds :
         (loops[l].pc = "run" /\ loops'[l].pc # "run")
            => LET sink  == loops'[l].sink
                   fatal == Reports(sink, {"exec", "parse", "validate"})
                   cpu   == Reports(sink, {"cpu"})
               IN  /\ fatal <= 1 /\ cpu <= 1 /\ Len(sink) = fatal + cpu
                   /\ loops'[l].pc = "wait" => fatal = 1 /\ sink[Len(sink)] # "cpu"
                   /\ loops'[l].pc = "store" => fatal = 0
                   /\ cpu = 1 => Reports(sink, {"exec", "parse"}) = 0]_vars

\* a round that reported a failed host CPU read is about to append its
\* sample to a store that holds one
C19_Witness ==
    /\ \E l \in LoopIds : loops[l].pc = "store" /\ loops[l].sink = <<"cpu">>
    /\ Len(history) > 0

\* C17 (LockSpec): whatever appends and clears run beside it, a reading call
\* finds the history no longer than maxHistory and exactly as the last
\* completed append or clear left it; nobody reads while a writer holds the
\* lock, and a writer holds it alone.
C17_ReadersSeeWholeUpdates ==
    /\ \A k \in CallIds :
          calls[k].pc = "read" => calls[k].size <= maxHistory /\ calls[k].whole
    /\ dataMutex.writer # 0 => dataMutex.readers = {}
    /\ \A k \in CallIds :
          calls[k].pc \in {"rlocked", "read"} <=> k \in dataMutex.readers
    /\ Cardinality({l \in LoopIds : loops[l].pc \in {"locked", "appended", "trimmed"}}
                     \cup {k \in CallIds : calls[k].pc \in {"locked", "cleared"}})
          = IF dataMutex.writer = 0 THEN 0 ELSE 1

\* two reading calls hold the lock at the same time, on a full history from
\* which a sample was evicted, while a loop waits to append the next one
C17_Witness ==
    /\ Cardinality(dataMutex.readers) >= 2
    /\ \A k \in dataMutex.readers : calls[k].pc = "read"
    /\ Len(history) = maxHistory
    /\ Len(log) = maxHistory + 1
    /\ \E l \in LoopIds : loops[l].pc = "store"

\* C18 (Spec): no variable other than the history is written by one
\* goroutine while another one reads or writes it without synchronization:
\* when SetInterval assigns c.interval and c.ctx no collection loop is
\* there to read them, and no two loops are in GetCPUUsage, which reads and
\* writes lastCPUStats, at the same time.
C18_NoUnsynchronizedConflict ==
    [][/\ (reply'.op = "SetInterval" /\ reply'.arg > 0)
             => \A l \in LoopIds : LoopAccesses(loops[l]) \cap SetIntervalWrites = {}
       /\ \A l, m \in LoopIds :
             l # m => "lastCPUStats" \notin
                         LoopAccesses(loops'[l]) \cap LoopAccesses(loops'[m])]_vars

\* C21 (QuerySpec): while nothing was appended since the store was emptied,
\* the history is empty, GetStats reports history_size 0, GetHistory returns
\* the empty sequence and GetLatest fails with the no-data error; emptying the
\* store leaves the capacity as it was; and what is appended afterwards is
\* stored in the order of the appends, never more than the capacity.
C21_ClearEmpties ==
    /\ [](Len(log) = 0 =>
             /\ Len(history) = 0
             /\ GetStats.history_size = 0
             /\ reply.op = "GetHistory" => (reader = <<>> /\ reply.arg = 0)
             /\ reply.op = "GetLatest" => (reader = <<>> /\ reply.err = NoDataError))
    /\ [](Len(log) > 0 =>
             /\ Len(history) = Min(Len(log), maxHistory)
             /\ \A i \in 1..Len(history) :
                   history[i] = log[Len(log) - Len(history) + i])
    /\ [][(Len(history) > 0 /\ Len(history') = 0)
              => (GetStats'.max_history = GetStats.max_history /\ Len(log') = 0)]_vars

\* GetLatest just failed on a store that was emptied after a loop had stored
\* a sample in its last round
C21_Witness ==
    /\ reply.op = "GetLatest"
    /\ reply.err = NoDataError
    /\ \E l \in LoopIds : loops[l].pc = "wait" /\ loops[l].sink = <<>>
    /\ Len(history) = 0

\* C22: every external command runs under a timeout, so an operation whose
\* command never returns still terminates: a started GetGPUStaticInfo call, a
\* started diagnostic suite and a started collection round each come to an end
C22_EveryCommandBounded ==
    /\ (info.pc \notin {"idle", "done"}) ~> (info.pc = "done")
    /\ (test.pc = "run") ~> (test.pc = "done")
    /\ \A l \in LoopIds : (loops[l].pc = "run") ~> (loops[l].pc # "run")

\* C23: a finished GetGPUStaticInfo call has returned a result, each field of
\* which holds the sub-query's value or a placeholder
C23_StaticInfoNeverFails ==
    info.pc = "done" =>
        /\ info.err = ""
        /\ \A v \in {info.ProductName, info.SerialNumber, info.UniqueID,
                      info.VRAMVendor, info.BusInfo} :
              v \in {"value", "Unknown", "Not Available"}

\* the lines of the text that are device summary lines
SummaryLines(text) ==
    {i \in 1..Len(Lines(text)) : deviceIDRegex(Lines(text)[i]).found}

LineId(text, i) == deviceIDRegex(Lines(text)[i]).v

\* the summary lines carry pairwise distinct device indices
DistinctIds(text) ==
    \A i, j \in SummaryLines(text) : LineId(text, i) = LineId(text, j) => i = j

\* the summary line has the form index, temperature °C, power W, fan% auto,
\* VRAM%, GPU%
WellFormed(line) ==
    /\ Len(line) = 7
    /\ line[2].k = "degC" /\ line[3].k = "watt"
    /\ line[6].k = "pct" /\ line[7].k = "pct"

\* C24: a text with N summary lines of distinct device indices parses into
\* exactly N records, one per index, and each record's temperature, power,
\* VRAM% and GPU% are those of the line carrying its index
C24_OneRecordPerLine ==
    (parsed.done /\ SummaryLines(input) # {} /\ DistinctIds(input)) =>
        /\ parsed.err = ""
        /\ Len(parsed.GPUs) = Cardinality(SummaryLines(input))
        /\ \A i \in SummaryLines(input) :
              LET line == Lines(input)[i]
                  J    == {j \in 1..Len(parsed.GPUs) :
                              parsed.GPUs[j].ID = LineId(input, i)}
              IN  /\ Cardinality(J) = 1
                  /\ \A j \in J :
                        /\ parsed.GPUs[j].Temperature = tempRegex(line).v
                        /\ parsed.GPUs[j].Power = powerRegex(line).v
                        /\ parsed.GPUs[j].VRAMUsage = vramRegex(line).v
                        /\ parsed.GPUs[j].GPUUsage = vramRegex(line).w
                        /\ WellFormed(line) =>
                              /\ parsed.GPUs[j].Temperature = line[2].v
                              /\ parsed.GPUs[j].Power = line[3].v
                              /\ parsed.GPUs[j].VRAMUsage = line[6].v
                              /\ parsed.GPUs[j].GPUUsage = line[7].v

\* three well-formed summary lines of three devices have been parsed, the
\* record of device 2 coming first
C24_Witness ==
    /\ parsed.done
    /\ Cardinality(SummaryLines(input)) = 3
    /\ DistinctIds(input)
    /\ \A i \in SummaryLines(input) : WellFormed(Lines(input)[i])
    /\ Len(parsed.GPUs) = 3
    /\ parsed.GPUs[1].ID = 2

\* C25: parsing empty text fails with the empty-input error and yields no
\* sample, and a round whose output the parser rejects ends reporting the
\* parse error to the sink and appends nothing to the history
C25_EmptyRejected ==
    /\ []((parsed.done /\ IsEmptyText(input)) =>
              (parsed.err = "empty" /\ parsed.GPUs = <<>>))
    /\ [](IsEmptyText(input) =>
              /\ history = <<>>
              /\ \A l \in LoopIds : loops[l].pc # "store"
              /\ \A l \in LoopIds :
                    loops[l].pc = "wait" => loops[l].sink \in {<<"exec">>, <<"parse">>})
    /\ [][\A l \in LoopIds :
             (loops[l].pc = "run" /\ loops'[l].sink = <<"parse">>) =>
                 /\ IsEmptyText(input)
                 /\ loops'[l].pc = "wait"
                 /\ loops'[l].data = NoData
                 /\ history' = history
                 /\ lastCPUStats' = lastCPUStats]_vars

\* the empty text has been parsed and a round that read it has reported the
\* parse error
C25_Witness ==
    /\ IsEmptyText(input)
    /\ parsed.done /\ parsed.err = "empty"
    /\ \E l \in LoopIds : loops[l].pc = "wait" /\ loops[l].sink = <<"parse">>
    /\ history = <<>>

\* C26: the line "0  45.0c  120.0W  ...  50%  80%" parses into one device
\* with temperature 45, power 120, VRAM usage 50 and GPU usage 80
C26_LowercaseMarker ==
    (parsed.done /\ input \in {<<LineLowC>>, <<LineLowC, <<>> >>}) =>
        /\ parsed.err = ""
        /\ Len(parsed.GPUs) = 1
        /\ parsed.GPUs[1].ID = 0
        /\ parsed.GPUs[1].Temperature = 45
        /\ parsed.GPUs[1].Power = 120
        /\ parsed.GPUs[1].VRAMUsage = 50
        /\ parsed.GPUs[1].GPUUsage = 80

\* C27: in a finished Prometheus export, for each GPU of the latest sample
\* the warning gauge is 1 exactly when temperature > 70, the critical gauge
\* exactly when temperature > 80, the VRAM gauge exactly when used/total
\* exceeds 80%
C27_ThresholdGauges ==
    (reply.op = "ExportPrometheus" /\ reply.err = "") =>
        /\ Len(exported.gauges) = Len(exported.latest.GPUs)
        /\ \A i \in 1..Len(exported.gauges) :
              LET gpu == exported.latest.GPUs[i]
                  g   == exported.gauges[i]
              IN  /\ g.ID = gpu.ID
                  /\ (g.warning = 1) <=> (gpu.Temperature > 70)
                  /\ (g.critical = 1) <=> (gpu.Temperature > 80)
                  /\ (g.vramHigh = 1) <=>
                        (gpu.VRAMTotal > 0 /\ gpu.VRAMUsage * 100 > 80 * gpu.VRAMTotal)

\* C28: once the stop signal is raised a loop starts no new round: a loop
\* waiting in select whose Done channel is closed never takes the tick
C28_NoRoundAfterStop ==
    [][\A l \in LoopIds :
          (loops[l].pc = "wait" /\ loops'[l].pc = "run") =>
              loops[l].ctx \notin cancelled]_vars

\* the ways the round of loop l can end when the contexts of canc are
\* cancelled: what it reports to the sink and whether it appends a sample
RoundOutcomes(l, canc) ==
    {[sink |-> r.sink, store |-> r.store] :
        r \in {Collect(e \/ loops[l].ctx \in canc, p, cur, lastCPUStats, now) :
                  e \in BOOLEAN,
                  p \in UNION {ParseRocmSMIOutput(CombinedOutput(out, v, c)) :
                                  out \in PrimaryOutputs, v \in BOOLEAN, c \in BOOLEAN},
                  cur \in CPUSnapshots \cup {ReadFailed}}}

\* C29: raising the stop signal (Stop, or the stop half of SetInterval) while a
\* round is in flight does not change how the round can end: it still appends
\* a sample or reports an error exactly as it could have without the signal
C29_InFlightRoundUndisturbed ==
    [][\A l \in LoopIds :
          (/\ loops[l].pc = "run" /\ loops'[l].pc = "run"
           /\ loops[l].ctx \notin cancelled
           /\ loops[l].ctx \in cancelled') =>
              RoundOutcomes(l, cancelled') = RoundOutcomes(l, cancelled)]_vars

\* C30: a round whose primary command fails is aborted at once: it reports the
\* execution failure to the sink and nothing else, the parser and the CPU
\* read leave no trace (no sample, lastCPUStats untouched) and the history is
\* unchanged; a round run under a cancelled context always ends this way
C30_PrimaryFailureAborts ==
    [][\A l \in LoopIds :
          (loops[l].pc = "run" /\ loops'[l].pc # "run") =>
              /\ loops[l].ctx \in cancelled => loops'[l].sink = <<"exec">>
              /\ (loops'[l].sink # <<>> /\ Head(loops'[l].sink) = "exec") =>
                    /\ loops'[l].sink = <<"exec">>
                    /\ loops'[l].pc = "wait"
                    /\ loops'[l].data = NoData
                    /\ history' = history
                    /\ log' = log
                    /\ lastCPUStats' = lastCPUStats]_vars

\* after a round that stored a sample, a round failed at the primary command
\* although the stop signal was not raised
C30_Witness ==
    /\ Len(history) > 0
    /\ lastCPUStats # NoCPUStats
    /\ ctx \notin cancelled
    /\ \E l \in LoopIds : loops[l].pc = "wait" /\ loops[l].sink = <<"exec">>

\* the text parses into devices that all pass the range checks of Validate
ParsesAndValidates(text) ==
    \A p \in ParseRocmSMIOutput(text) :
        p.err = "" /\ \A i \in 1..Len(p.GPUs) : ValidGPU(p.GPUs[i])

\* C31: when both supplementary commands fail, the round reports nothing for
\* them; if the primary command succeeded and its output parses and
\* validates, the round goes on to store one sample parsed from the primary
\* output alone, and the store appends exactly that one sample
C31_SupplementaryFailureSilent ==
    /\ [][\A l \in LoopIds :
             (loops[l].pc = "run" /\ loops'[l].pc # "run") =>
                 /\ loops'[l].sink \in {<<>>, <<"exec">>, <<"parse">>, <<"validate">>}
                 /\ (loops'[l].sink # <<"exec">> /\ ParsesAndValidates(input)) =>
                       /\ loops'[l].sink = <<>>
                       /\ loops'[l].pc = "store"
                       /\ \E p \in ParseRocmSMIOutput(input) :
                             loops'[l].data.GPUs = p.GPUs]_vars
    /\ [][\A l \in LoopIds :
             (loops[l].pc = "store" /\ loops'[l].pc # "store") =>
                 /\ Len(history') = Len(history) + 1
                 /\ Last(history') = loops[l].data
                 /\ loops'[l].sink = <<>>]_vars

\* a round whose supplementary commands failed has appended the sample of a
\* two-device text; no detailed figure is in it
C31_Witness ==
    /\ Cardinality(SummaryLines(input)) = 2
    /\ DistinctIds(input)
    /\ Len(history) = 1
    /\ Len(history[1].GPUs) = 2
    /\ \A i \in 1..2 : history[1].GPUs[i].VRAMTotal = 0
    /\ \E l \in LoopIds : loops[l].pc = "wait" /\ loops[l].sink = <<>>

\* C32: a round is started only by collectLoop's initial call or by select
\* taking a tick, one round per tick taken; a round that ends, whatever its
\* outcome, leaves the loop storing its sample or waiting in select, and the
\* store leaves it waiting in select: no round follows a round without a tick
C32_NoRetryBeforeTick ==
    [][\A l \in LoopIds :
          /\ (loops'[l].pc = "run" /\ loops'[l] # loops[l]) =>
                 loops[l].pc \in {"start", "wait"}
          /\ (loops[l].pc = "run" /\ loops'[l] # loops[l]) =>
                 loops'[l].pc \in {"store", "wait"}
          /\ (loops[l].pc = "store" /\ loops'[l] # loops[l]) =>
                 loops'[l].pc = "wait"]_vars

\* a round is running after an earlier round read the CPU counters and was
\* discarded, nothing having been stored since the history was last empty
C32_Witness ==
    /\ \E l \in LoopIds : loops[l].pc = "run" /\ loops[l].ctx \notin cancelled
    /\ lastCPUStats # NoCPUStats
    /\ log = <<>>

\* C33: every non-empty text parses into a sample of at least one device; a
\* text without a summary line parses into the single device 0, whose metrics
\* are searched in the whole text; the no-device error is returned only when
\* no device section was produced
C33_ImplicitDeviceZero ==
    parsed.done =>
        /\ ~IsEmptyText(input) => (parsed.err = "" /\ Len(parsed.GPUs) >= 1)
        /\ (~IsEmptyText(input) /\ SummaryLines(input) = {}) =>
              /\ DOMAIN splitByGPU(input) = {0}
              /\ splitByGPU(input)[0] = Flatten(Lines(input))
              /\ Len(parsed.GPUs) = 1
              /\ parsed.GPUs[1].ID = 0
              /\ parsed.GPUs[1].Temperature = tempRegex(Flatten(Lines(input))).v
              /\ parsed.GPUs[1].Power = powerRegex(Flatten(Lines(input))).v
              /\ parsed.GPUs[1].GPUUsage = vramRegex(Flatten(Lines(input))).w
        /\ parsed.err = "nogpu" => DOMAIN splitByGPU(input) = {}

\* a text of a banner and a line of metrics without device index has been
\* parsed into device 0 carrying those metrics
C33_Witness ==
    /\ parsed.done
    /\ Len(input) = 2
    /\ SummaryLines(input) = {}
    /\ Len(parsed.GPUs) = 1
    /\ parsed.GPUs[1].ID = 0
    /\ parsed.GPUs[1].Temperature = 60
    /\ parsed.GPUs[1].GPUUsage = 40

\* the positions, in the whole text, of the detailed figures of kind k keyed
\* by device index i
Figures(text, k, i) ==
    {n \in 1..Len(Flatten(Lines(text))) :
        Flatten(Lines(text))[n].k = k /\ Flatten(Lines(text))[n].id = i}

\* the last such figure, in GB
LastFigureGB(text, k, i) ==
    LET F == Figures(text, k, i)
    IN  Flatten(Lines(text))[CHOOSE n \in F : \A m \in F : m <= n].v \div BytesPerGB

\* the trailing VRAM% of the section of device i
SectionPercent(text, i) == vramRegex(splitByGPU(text)[i]).v

\* C34: a device whose index keys detailed VRAM figures in the text takes its
\* VRAM usage and total from them, in GB, instead of the percentage of its
\* summary line; figures keyed by another index do not touch it, and without
\* a figure of its own the usage is the percentage and the total is zero
C34_DetailedVRAMOverrides ==
    (parsed.done /\ parsed.err = "") =>
        \A j \in 1..Len(parsed.GPUs) :
            LET gpu == parsed.GPUs[j]
            IN  /\ gpu.VRAMUsage =
                      IF Figures(input, "vramUsed", gpu.ID) # {}
                      THEN LastFigureGB(input, "vramUsed", gpu.ID)
                      ELSE SectionPercent(input, gpu.ID)
                /\ gpu.VRAMTotal =
                      IF Figures(input, "vramTotal", gpu.ID) # {}
                      THEN LastFigureGB(input, "vramTotal", gpu.ID)
                      ELSE 0

\* two devices have been parsed from a text whose detailed figures are keyed
\* by device 1 only: device 1 shows them, device 0 keeps its percentage
C34_Witness ==
    /\ parsed.done
    /\ Len(parsed.GPUs) = 2
    /\ Figures(input, "vramUsed", 1) # {} /\ Figures(input, "vramTotal", 1) # {}
    /\ Figures(input, "vramUsed", 0) = {} /\ Figures(input, "vramTotal", 0) = {}
    /\ \A j \in 1..2 :
          /\ parsed.GPUs[j].ID = 1 =>
                (parsed.GPUs[j].VRAMUsage = 1 /\ parsed.GPUs[j].VRAMTotal = 1)
          /\ parsed.GPUs[j].ID = 0 =>
                (parsed.GPUs[j].VRAMUsage = 10 /\ parsed.GPUs[j].VRAMTotal = 0)

\* the summary line carrying device index id (the indices being distinct)
LineOf(text, id) == CHOOSE i \in SummaryLines(text) : LineId(text, i) = id

\* C35: the devices of a parsed sample come in the order in which their
\* summary lines appear in the text
C35_DiscoveryOrder ==
    (parsed.done /\ parsed.err = "" /\ SummaryLines(input) # {} /\ DistinctIds(input)) =>
        \A j, k \in 1..Len(parsed.GPUs) :
            j < k => LineOf(input, parsed.GPUs[j].ID) < LineOf(input, parsed.GPUs[k].ID)

\* a metric of the section is missing: one of the four patterns does not match
MissingMetric(section) ==
    \/ ~tempRegex(section).found
    \/ ~powerRegex(section).found
    \/ ~vramRegex(section).found
    \/ ~fanRegex(section).found

\* C36: a metric whose pattern does not match its device's section is left at
\* zero while the other metrics of the device and the other devices are
\* parsed as usual; a round that parsed such a sample passes validation, goes
\* on to the store and the sample is appended
C36_MissingMetricIsZero ==
    /\ []((parsed.done /\ ~IsEmptyText(input)) =>
             /\ parsed.err = ""
             /\ Len(parsed.GPUs) = Cardinality(DOMAIN splitByGPU(input))
             /\ \A j \in 1..Len(parsed.GPUs) :
                   LET gpu     == parsed.GPUs[j]
                       section == splitByGPU(input)[gpu.ID]
                   IN  /\ gpu.Temperature =
                             IF tempRegex(section).found THEN tempRegex(section).v ELSE 0
                       /\ gpu.Power =
                             IF powerRegex(section).found THEN powerRegex(section).v ELSE 0
                       /\ gpu.GPUUsage =
                             IF vramRegex(section).found THEN vramRegex(section).w ELSE 0
                       /\ gpu.VRAMUsage =
                             IF vramRegex(section).found THEN vramRegex(section).v ELSE 0
                       /\ gpu.FanSpeed =
                             IF fanRegex(section).found THEN fanRegex(section).v ELSE 0)
    /\ [][\A l \in LoopIds :
             (/\ loops[l].pc = "run" /\ loops'[l].pc # "run"
              /\ loops'[l].sink # <<"exec">>
              /\ ~IsEmptyText(input)
              /\ \E id \in DOMAIN splitByGPU(input) : MissingMetric(splitByGPU(input)[id])) =>
                 /\ loops'[l].pc = "store"
                 /\ loops'[l].sink = <<>>
                 /\ \E p \in ParseRocmSMIOutput(input) : loops'[l].data.GPUs = p.GPUs]_vars
    /\ [][\A l \in LoopIds :
             (loops[l].pc = "store" /\ loops'[l].pc # "store") =>
                 history' = Append(history, loops[l].data)]_vars

\* the history holds a sample of two devices: device 0, whose line has no
\* temperature the parser recognises, with temperature 0 and its power, and
\* device 1 with all its metrics
C36_Witness ==
    /\ Len(history) = 1
    /\ Len(history[1].GPUs) = 2
    /\ \E j, k \in 1..2 :
          /\ history[1].GPUs[j].ID = 0
          /\ history[1].GPUs[j].Temperature = 0
          /\ history[1].GPUs[j].FanSpeed = 0
          /\ history[1].GPUs[j].Power = 120
          /\ history[1].GPUs[k].ID = 1
          /\ history[1].GPUs[k].Temperature = 45

\* C37: the capacity and the interval are strictly positive in every state:
\* NewCollector leaves a positive configured value or the default 1000 / 5 s,
\* the capacity never changes, and the interval changes only to the positive
\* duration handed to SetInterval
C37_PositiveConfiguration ==
    /\ [](/\ maxHistory > 0 /\ interval > 0
          /\ GetStats.max_history > 0 /\ GetStats.interval_seconds > 0
          /\ maxHistory \in {DefaultMaxHistory} \cup {m \in ConfigMaxHistories : m > 0}
          /\ interval \in {DefaultInterval} \cup {d \in Durations : d > 0})
    /\ [][/\ maxHistory' = maxHistory
          /\ interval' # interval =>
                (reply'.op = "SetInterval" /\ reply'.arg > 0 /\ interval' = reply'.arg)
          /\ (reply'.op = "SetInterval" /\ reply'.arg <= 0) => interval' = interval]_vars

\* the collector built from a non-positive capacity and a non-positive
\* interval has stored a sample and has just been handed a non-positive
\* duration by SetInterval
C37_Witness ==
    /\ maxHistory = DefaultMaxHistory
    /\ interval = DefaultInterval
    /\ Len(history) > 0
    /\ reply.op = "SetInterval" /\ reply.arg < 0

\* C38: once Stop has cancelled the context, Start does not renew it: the
\* context stays cancelled, every round that ends afterwards, the initial
\* round of a restarted loop included, fails at the primary command, reports
\* it and appends nothing, the history changes no more once no validated
\* sample is waiting to be stored, and every loop eventually exits
C38_RestartDoesNotResume ==
    /\ [][(ctx \in cancelled) =>
             (/\ ctx' = ctx
              /\ ctx' \in cancelled'
              /\ \A l \in LoopIds :
                    (loops[l].pc = "run" /\ loops'[l].pc # "run") =>
                        (/\ loops'[l].sink = <<"exec">>
                         /\ loops'[l].pc = "wait"
                         /\ history' = history)
              /\ (\A l \in LoopIds : loops[l].pc # "store") =>
                    (history' = history))]_vars
    /\ \A l \in LoopIds :
          (ctx \in cancelled /\ loops[l].pc # "none") ~> (loops[l].pc = "none")

\* Start was called after Stop: the restarted loop's initial round has failed
\* at the primary command, the history holding what it held
C38_Witness ==
    /\ lastCall.op = "Start"
    /\ ctx \in cancelled
    /\ Len(history) > 0
    /\ Cardinality(Live(loops)) = 1
    /\ \E l \in LoopIds : loops[l].pc = "wait" /\ loops[l].sink = <<"exec">>

=============================================================================
